---- MODULE Spec2Model ----
(***************************************************************************)
(* PK-Clearance-Predictor: the long -> wide demographic pivot of           *)
(* notebooks/02_eda.py and the PK covariate feature engineering of         *)
(* notebooks/03_feature_engineering.py and notebooks/03b_save_analysis.py. *)
(*                                                                         *)
(* Encoding.  A dataframe cell is a sequence: <<>> is the missing value    *)
(* (NaN / None) and <<v>> is the present value v.  A long dataframe is a   *)
(* sequence of records (one per row, in file order).  A wide dataframe is  *)
(* [columns |-> sequence of column names, rows |-> sequence of rows], a    *)
(* row being a function from the column names to cells.                    *)
(***************************************************************************)
EXTENDS Integers, Sequences, FiniteSets, TLC

VARIABLES
    pc,              \* position in the running script
    df_groups,       \* 02_eda.py: rows of pkdb_groups.csv (long)
    df_indiv,        \* 02_eda.py: rows of pkdb_individuals.csv (long)
    df_groups_wide,  \* groups_wide.csv: written by 02_eda.py, read by 03 and 03b
    df_indiv_wide,   \* individuals_wide.csv
    df_g,            \* 03_feature_engineering.py: the groups being enriched
    df_i,            \* 03_feature_engineering.py: the individuals being enriched
    df_g_03b,        \* 03b_save_analysis.py: its df_g
    call,            \* a call of a function: its name and arguments
    result,          \* the value the call returned
    server,          \* 01_data_ingestion.py: the API answering get_all_pages
    page,            \* get_all_pages: its local page
    all_records,     \* get_all_pages: its local all_records
    requested,       \* the pages requested so far, in request order
    df_interv,       \* 03 / 03b: rows of pkdb_interventions.csv
    caff_sids,       \* 03 / 03b: the sids of pkdb_caffeine_study_details.csv
    interv_summary,  \* 03 / 03b: the intervention summary per study
    df_analysis      \* 03 / 03b: the caffeine analysis dataset

vars == <<pc, df_groups, df_indiv, df_groups_wide, df_indiv_wide, df_g, df_i, df_g_03b,
          call, result, server, page, all_records, requested,
          df_interv, caff_sids, interv_summary, df_analysis>>

longVars == <<df_groups, df_indiv>>

wideVars == <<df_groups_wide, df_indiv_wide>>

feVars == <<df_g, df_i, df_g_03b>>

callVars == <<call, result>>

pageVars == <<server, page, all_records, requested>>

joinVars == <<df_interv, caff_sids, interv_summary, df_analysis>>

\* The missing value of a cell (numpy.nan / None).
NaN == <<>>

notna(c) == c # NaN

isna(c) == c = NaN

Range(s) == {s[i] : i \in DOMAIN s}

(***************************************************************************)
(* Numbers.  A float is the rational <<n, d>> in lowest terms with d > 0;  *)
(* <<1, 0>> and <<-1, 0>> are +inf and -inf; the float NaN is the missing  *)
(* cell, as in pandas.  Arithmetic is on cells and propagates NaN.         *)
(***************************************************************************)
RECURSIVE GCD(_, _)
GCD(a, b) == IF b = 0 THEN a ELSE GCD(b, a % b)

Abs(n) == IF n < 0 THEN -n ELSE n

Sign(n) == IF n > 0 THEN 1 ELSE IF n < 0 THEN -1 ELSE 0

\* the cell holding n/d (NaN for 0/0, an infinity for n/0)
Num(n, d) ==
    IF d = 0 THEN (IF n = 0 THEN NaN ELSE << <<Sign(n), 0>> >>)
    ELSE LET g == GCD(Abs(n), Abs(d))
         IN  << <<(Sign(d) * n) \div g, Abs(d) \div g>> >>

Int2Num(n) == Num(n, 1)

FMul(x, y) == IF isna(x) \/ isna(y) THEN NaN ELSE Num(x[1][1] * y[1][1], x[1][2] * y[1][2])

FDiv(x, y) == IF isna(x) \/ isna(y) THEN NaN ELSE Num(x[1][1] * y[1][2], x[1][2] * y[1][1])

FAdd(x, y) ==
    IF isna(x) \/ isna(y) THEN NaN
    ELSE IF x[1][2] = 0 /\ y[1][2] = 0
         THEN (IF x[1][1] = y[1][1] THEN x ELSE NaN)
         ELSE Num(x[1][1] * y[1][2] + y[1][1] * x[1][2], x[1][2] * y[1][2])

FNeg(x) == IF isna(x) THEN NaN ELSE << <<-x[1][1], x[1][2]>> >>

FSub(x, y) == FAdd(x, FNeg(y))

\* x < y and x > y on floats: False when either side is NaN
FLess(x, y) == notna(x) /\ notna(y) /\ x[1][1] * y[1][2] < y[1][1] * x[1][2]

FGreater(x, y) == FLess(y, x)

(***************************************************************************)
(* Strings that the code lower-cases are sequences of one-character        *)
(* strings; str.lower() maps the upper-case letters to lower case.         *)
(***************************************************************************)
UpperToLower == [A |-> "a", E |-> "e", F |-> "f", L |-> "l", M |-> "m", N |-> "n",
                 O |-> "o", S |-> "s", T |-> "t", R |-> "r", U |-> "u", Y |-> "y",
                 H |-> "h", K |-> "k"]

\* the label compared as it is written
lower_keep(s) == s

lower(s) == [i \in DOMAIN s |-> IF s[i] \in DOMAIN UpperToLower THEN UpperToLower[s[i]]
                                                                ELSE s[i]]

(***************************************************************************)
(* 02_eda.py, cells 2 and 3: measurement types and id columns.             *)
(***************************************************************************)
numeric_types == <<"age", "weight", "bmi", "height", "concentration">>

choice_types == <<"sex", "healthy", "species", "smoking", "ethnicity",
                  "medication", "overnight fast", "disease",
                  "abstinence", "oral contraceptives", "abstinence medication">>

indiv_numeric_types == <<"age", "weight", "bmi", "height">>

indiv_choice_types == <<"sex", "healthy", "species", "smoking", "ethnicity",
                        "disease", "medication", "cyp2d6 phenotype",
                        "cyp2d6 genotype", "child-pugh score",
                        "abstinence medication">>

group_index == <<"study_sid", "study_name", "group_pk", "group_name", "group_count">>

indiv_index == <<"study_sid", "study_name", "individual_pk", "individual_name",
                 "individual_group_pk">>

(***************************************************************************)
(* Sort order of the values the model draws: strings in lexicographic      *)
(* order (as pandas sorts object keys), integers by value.                 *)
(***************************************************************************)
Collation == <<"A", "B", "S1", "S2", "S3", "age", "alcohol", "bmi", "caffeine",
               "codeine", "g1", "g1b", "g2", "height", "i1", "i1b", "i2", "iv", "oral",
               "sex", "weight">>

OrdOf(v) == IF v \in Range(Collation)
            THEN CHOOSE i \in DOMAIN Collation : Collation[i] = v
            ELSE 0

StringColumns == {"study_sid", "study_name", "group_name", "individual_name",
                  "measurement_type"}

\* rank of a present cell of column col
CellOrd(col, c) == IF col \in StringColumns THEN OrdOf(c[1]) ELSE c[1]

\* lexicographic order of two key tuples (sequences of present cells) over cols
RECURSIVE KeyLess(_, _, _)
KeyLess(cols, a, b) ==
    IF cols = <<>> THEN FALSE
    ELSE LET x == CellOrd(Head(cols), Head(a))
             y == CellOrd(Head(cols), Head(b))
         IN  IF x # y THEN x < y ELSE KeyLess(Tail(cols), Tail(a), Tail(b))

\* the key tuples of K in ascending order
RECURSIVE SortKeys(_, _)
SortKeys(cols, K) ==
    IF K = {} THEN <<>>
    ELSE LET m == CHOOSE k \in K : \A o \in K \ {k} : KeyLess(cols, k, o)
         IN  <<m>> \o SortKeys(cols, K \ {m})

\* the strings of S in ascending order
RECURSIVE SortStrings(_)
SortStrings(S) ==
    IF S = {} THEN <<>>
    ELSE LET m == CHOOSE s \in S : \A o \in S \ {s} : OrdOf(s) < OrdOf(o)
         IN  <<m>> \o SortStrings(S \ {m})

KeyOf(r, cols) == [i \in DOMAIN cols |-> r[cols[i]]]

\* no filter: every row that has a measurement type
isin_all(df, types) ==
    LET Keep(r) == r.measurement_type # NaN
    IN  SelectSeq(df, Keep)

(***************************************************************************)
(* df[df['measurement_type'].isin(types)]                                  *)
(***************************************************************************)
isin_types(df, types) ==
    LET Keep(r) == r.measurement_type # NaN /\ r.measurement_type[1] \in Range(types)
    IN  SelectSeq(df, Keep)

\* GroupBy.first: the first non-null value of the series, NaN when it has none
RECURSIVE first(_)
first(s) ==
    IF s = <<>> THEN NaN
    ELSE IF notna(Head(s)) THEN Head(s) ELSE first(Tail(s))

(***************************************************************************)
(* DataFrame.pivot_table(index=index, columns='measurement_type',          *)
(* values=values, aggfunc='first').reset_index(), with pandas' defaults    *)
(* (dropna=True, sort=True):                                               *)
(*   - groupby(index + ['measurement_type']) leaves out the rows that have *)
(*     a missing key;                                                      *)
(*   - every group is aggregated with 'first' and the groups whose         *)
(*     aggregate is missing are dropped (agged.dropna(how='all'));         *)
(*   - unstack: one row per remaining index key, one column per remaining  *)
(*     measurement type, both sorted; a combination without group is NaN.  *)
(***************************************************************************)
\* groupby(keys, dropna=True): the rows whose key columns are all present
groupby_rows(data, keycols) ==
    LET HasKey(r) == \A i \in DOMAIN keycols : notna(r[keycols[i]])
    IN  SelectSeq(data, HasKey)

\* aggfunc='last': the last non-null value of the series
RECURSIVE last(_)
last(s) ==
    IF s = <<>> THEN NaN
    ELSE IF notna(s[Len(s)]) THEN s[Len(s)] ELSE last(SubSeq(s, 1, Len(s) - 1))

\* iloc[0]: the value of the first row, null or not
head_value(s) == IF s = <<>> THEN NaN ELSE Head(s)

\* the aggregate of the group with key k: aggfunc applied to its values column
aggfunc(s) == first(s)

agg_group(grouped, keycols, values, k) ==
    LET InGroup(r) == KeyOf(r, keycols) = k
        g == SelectSeq(grouped, InGroup)
    IN  aggfunc([i \in DOMAIN g |-> g[i][values]])

\* dropna=False: every group is kept
dropna_none(grouped, keycols, values) == {KeyOf(r, keycols) : r \in Range(grouped)}

\* agged.dropna(how='all'): the group keys whose aggregate is present
dropna_all(grouped, keycols, values) ==
    {k \in {KeyOf(r, keycols) : r \in Range(grouped)} :
        notna(agg_group(grouped, keycols, values, k))}

pivot_table(data, index, values) ==
    LET keycols == index \o <<"measurement_type">>
        grouped == groupby_rows(data, keycols)
        agged == dropna_all(grouped, keycols, values)
        idx == SortKeys(index, {SubSeq(k, 1, Len(index)) : k \in agged})
        cols == SortStrings({k[Len(keycols)][1] : k \in agged})
        cell(ik, t) == IF (ik \o << <<t>> >>) \in agged
                       THEN agg_group(grouped, keycols, values, ik \o << <<t>> >>)
                       ELSE NaN
        row(ik) == [c \in Range(index) \cup Range(cols) |->
                      IF c \in Range(index)
                      THEN ik[CHOOSE i \in DOMAIN index : index[i] = c]
                      ELSE cell(ik, c)]
    IN  [columns |-> index \o cols,
         rows |-> [i \in DOMAIN idx |-> row(idx[i])]]

(***************************************************************************)
(* pd.merge(left, right, on=on, how='outer'): one row per pair of a left   *)
(* and a right row with equal keys, plus every unmatched row of either     *)
(* side with NaN in the other side's columns; keys sorted.                 *)
(***************************************************************************)
RECURSIVE Flatten(_)
Flatten(ss) == IF ss = <<>> THEN <<>> ELSE Head(ss) \o Flatten(Tail(ss))

NonKeyColumns(table, on) ==
    LET NotKey(c) == c \notin Range(on)
    IN  SelectSeq(table.columns, NotKey)

\* merge(right, left): the right table's columns come first
merge_columns_swapped(left, right, on) ==
    on \o NonKeyColumns(right, on) \o NonKeyColumns(left, on)

\* the columns of the merged table: keys, left columns, right columns
merge_columns(left, right, on) ==
    on \o NonKeyColumns(left, on) \o NonKeyColumns(right, on)

\* how='inner': only the keys that both sides have
merge_keys_inner(left, right, on) ==
    {KeyOf(r, on) : r \in Range(left.rows)} \cap {KeyOf(r, on) : r \in Range(right.rows)}

\* how='outer': the keys of either side
merge_keys(left, right, on) ==
    {KeyOf(r, on) : r \in Range(left.rows)} \cup {KeyOf(r, on) : r \in Range(right.rows)}

\* pd.concat([left, right]): a matched key gives one row per side
merge_rows_concat(ls, rs, lnan, rnan) ==
    [i \in 1..(Len(ls) + Len(rs)) |->
        IF i <= Len(ls) THEN <<ls[i], rnan>> ELSE <<lnan, rs[i - Len(ls)]>>]

\* the (left row, right row) pairs of one key: the product of the matching
\* rows, a side without match giving its all-NaN row
merge_rows(ls, rs, lnan, rnan) ==
    LET lz == IF ls = <<>> THEN <<lnan>> ELSE ls
        rz == IF rs = <<>> THEN <<rnan>> ELSE rs
    IN  Flatten([i \in DOMAIN lz |-> [j \in DOMAIN rz |-> <<lz[i], rz[j]>>]])

merge_outer(left, right, on) ==
    LET lcols == NonKeyColumns(left, on)
        rcols == NonKeyColumns(right, on)
        allcols == Range(on) \cup Range(lcols) \cup Range(rcols)
        keys == SortKeys(on, merge_keys(left, right, on))
        nanrow(cols) == [c \in Range(cols) |-> NaN]
        join(p, k) == [c \in allcols |->
                         IF c \in Range(on) THEN k[CHOOSE i \in DOMAIN on : on[i] = c]
                         ELSE IF c \in Range(lcols) THEN p[1][c] ELSE p[2][c]]
        rowsOf(k) ==
            LET Match(r) == KeyOf(r, on) = k
                ps == merge_rows(SelectSeq(left.rows, Match), SelectSeq(right.rows, Match),
                                 nanrow(lcols), nanrow(rcols))
            IN  [i \in DOMAIN ps |-> join(ps[i], k)]
    IN  [columns |-> merge_columns(left, right, on),
         rows |-> Flatten([i \in DOMAIN keys |-> rowsOf(keys[i])])]

(***************************************************************************)
(* 02_eda.py cell 2 (groups) and cell 3 (individuals): filter by type,     *)
(* pivot the numeric and the choice subset, outer-merge them.              *)
(***************************************************************************)
\* the numeric pivot fed with the unfiltered table
df_grp_num_unfiltered(df) == df

df_grp_num(df) == isin_types(df, numeric_types)

df_grp_cat(df) == isin_types(df, choice_types)

groups_wide(df) ==
    LET grp_numeric == pivot_table(df_grp_num(df), group_index, "mean")
        grp_choice == pivot_table(df_grp_cat(df), group_index, "choice")
    IN  merge_outer(grp_numeric, grp_choice, group_index)

df_ind_num(df) == isin_types(df, indiv_numeric_types)

df_ind_cat(df) == isin_types(df, indiv_choice_types)

indiv_wide(df) ==
    LET ind_numeric == pivot_table(df_ind_num(df), indiv_index, "value")
        ind_choice == pivot_table(df_ind_cat(df), indiv_index, "choice")
    IN  merge_outer(ind_numeric, ind_choice, indiv_index)

(***************************************************************************)
(* Inputs of the pivot: the rows of pkdb_groups.csv / pkdb_individuals.csv *)
(***************************************************************************)
MaxRecs == 3

GroupKey(pk, name) ==
    [study_sid |-> <<"S1">>, study_name |-> <<"A">>, group_pk |-> <<pk>>,
     group_name |-> name, group_count |-> <<10>>]

IndivKey(pk, name) ==
    [study_sid |-> <<"S1">>, study_name |-> <<"A">>, individual_pk |-> <<pk>>,
     individual_name |-> name, individual_group_pk |-> <<1>>]

\* a row of pkdb_groups.csv: m = (measurement_type, mean, choice)
GroupRecord(k, m) ==
    [study_sid |-> k.study_sid, study_name |-> k.study_name, group_pk |-> k.group_pk,
     group_name |-> k.group_name, group_count |-> k.group_count,
     measurement_type |-> <<m[1]>>, mean |-> m[2], choice |-> m[3]]

\* a row of pkdb_individuals.csv: m = (measurement_type, value, choice)
IndivRecord(k, m) ==
    [study_sid |-> k.study_sid, study_name |-> k.study_name,
     individual_pk |-> k.individual_pk, individual_name |-> k.individual_name,
     individual_group_pk |-> k.individual_group_pk,
     measurement_type |-> <<m[1]>>, value |-> m[2], choice |-> m[3]]

\* (measurement_type, numeric value, choice): "alcohol" is in neither type list
Measurements ==
    {<<"age", NaN, NaN>>, <<"age", Int2Num(34), NaN>>, <<"age", Int2Num(50), NaN>>,
     <<"weight", Int2Num(70), NaN>>, <<"sex", NaN, << <<"f">> >> >>,
     <<"alcohol", Int2Num(5), NaN>>}

\* Group 1 with every measurement; group 2 with a null age, an age and a sex;
\* group 1 again under a second name; a group whose name is missing.
GroupRecords ==
    {GroupRecord(GroupKey(1, <<"g1">>), m) : m \in Measurements}
      \cup {GroupRecord(GroupKey(2, <<"g2">>), m) :
              m \in {<<"age", NaN, NaN>>, <<"age", Int2Num(34), NaN>>,
                     <<"sex", NaN, << <<"f">> >> >>}}
      \cup {GroupRecord(GroupKey(1, <<"g1b">>), <<"age", Int2Num(34), NaN>>),
            GroupRecord(GroupKey(3, NaN), <<"age", Int2Num(34), NaN>>)}

IndivRecords ==
    {IndivRecord(IndivKey(1, <<"i1">>), m) :
        m \in {<<"age", NaN, NaN>>, <<"age", Int2Num(34), NaN>>,
               <<"sex", NaN, << <<"f">> >> >>, <<"alcohol", Int2Num(5), NaN>>}}
      \cup {IndivRecord(IndivKey(2, <<"i2">>), <<"age", Int2Num(34), NaN>>),
            IndivRecord(IndivKey(1, <<"i1b">>), <<"sex", NaN, << <<"f">> >> >>)}

SeqsUpTo(S, n) == UNION {[1..k -> S] : k \in 0..n}

NoTable == [columns |-> <<>>, rows |-> <<>>]

\* get_all_pages is not running
PagesIdle == server = <<>> /\ page = 0 /\ all_records = <<>> /\ requested = <<>>

\* cells 5 and 6 of 03 (the interventions and the join) are not running
JoinIdle ==
    /\ df_interv = <<>> /\ caff_sids = {}
    /\ interv_summary = NoTable /\ df_analysis = NoTable

\* to_csv(path, mode='a'): the rows are appended to the file that is there
to_csv_append(file, table) ==
    IF file = NoTable THEN table
    ELSE [columns |-> table.columns, rows |-> file.rows \o table.rows]

\* df.to_csv(path, index=False): mode='w', the file is replaced
to_csv(file, table) == table

(***************************************************************************)
(* 02_eda.py as a state machine: cell 1 loads the files, cell 2 pivots the *)
(* groups and saves groups_wide.csv, cell 3 pivots the individuals and     *)
(* saves individuals_wide.csv.  The script can be run a second time on the *)
(* same raw files: the files of the first run are then on disk.            *)
(***************************************************************************)
Init ==
    /\ pc = "pivot_groups"
    /\ \/ df_groups \in SeqsUpTo(GroupRecords, MaxRecs) /\ df_indiv = <<>>
       \/ df_groups = <<>> /\ df_indiv \in SeqsUpTo(IndivRecords, MaxRecs)
    /\ df_groups_wide = NoTable
    /\ df_indiv_wide = NoTable
    /\ df_g = NoTable /\ df_i = NoTable /\ df_g_03b = NoTable
    /\ call = <<>>
    /\ result = <<>>
    /\ PagesIdle /\ JoinIdle

PivotGroups ==
    /\ pc \in {"pivot_groups", "pivot_groups_again"}
    /\ df_groups_wide' = to_csv(df_groups_wide, groups_wide(df_groups))
    /\ pc' = IF pc = "pivot_groups" THEN "pivot_individuals" ELSE "pivot_individuals_again"
    /\ UNCHANGED <<longVars, pageVars, joinVars, df_indiv_wide, feVars, callVars>>

PivotIndividuals ==
    /\ pc \in {"pivot_individuals", "pivot_individuals_again"}
    /\ df_indiv_wide' = to_csv(df_indiv_wide, indiv_wide(df_indiv))
    /\ pc' = IF pc = "pivot_individuals" THEN "done" ELSE "done_again"
    /\ UNCHANGED <<longVars, pageVars, joinVars, df_groups_wide, feVars, callVars>>

\* the script is run a second time on the same pkdb_groups.csv and
\* pkdb_individuals.csv
RunAgain ==
    /\ pc = "done"
    /\ pc' = "pivot_groups_again"
    /\ UNCHANGED <<longVars, pageVars, joinVars, wideVars, feVars, callVars>>

Next == PivotGroups \/ PivotIndividuals \/ RunAgain

Spec == Init /\ [][Next]_vars

(***************************************************************************)
(* Vocabulary of the pivot properties.  Each is stated over                *)
(* (df, wide, index, ntypes, ctypes, vcol): the long table, its wide       *)
(* table, the id columns, the two type lists and the column the numeric    *)
(* pivot reads ('mean' for groups, 'value' for individuals).               *)
(***************************************************************************)
GroupsPivoted ==
    pc \in {"pivot_individuals", "done", "pivot_groups_again", "pivot_individuals_again",
            "done_again"}

IndivPivoted == pc \in {"done", "pivot_groups_again", "pivot_individuals_again", "done_again"}

DeclaredTypes(ntypes, ctypes) == Range(ntypes) \cup Range(ctypes)

IsRecognized(r, ntypes, ctypes) ==
    r.measurement_type # NaN /\ r.measurement_type[1] \in DeclaredTypes(ntypes, ctypes)

\* the value a record carries for its kind
ValueOf(r, ntypes, vcol) ==
    IF r.measurement_type[1] \in Range(ntypes) THEN r[vcol] ELSE r.choice

\* positions of the records of entity k and type t, in input order
PairIdx(df, index, k, t) ==
    {i \in DOMAIN df : KeyOf(df[i], index) = k /\ df[i].measurement_type = <<t>>}

Minimum(S) == CHOOSE x \in S : \A y \in S : x <= y

\* first non-null value of the pair (k, t) in input order, NaN when none
FirstNonNull(df, index, ntypes, vcol, k, t) ==
    LET P == {i \in PairIdx(df, index, k, t) : notna(ValueOf(df[i], ntypes, vcol))}
    IN  IF P = {} THEN NaN ELSE ValueOf(df[Minimum(P)], ntypes, vcol)

\* the entities (id-column tuples) that have a record of a recognized type
Entities(df, index, ntypes, ctypes) ==
    {KeyOf(r, index) : r \in {x \in Range(df) : IsRecognized(x, ntypes, ctypes)}}

CompleteKey(k) == \A i \in DOMAIN k : notna(k[i])

RowsOf(wide, index, k) == {i \in DOMAIN wide.rows : KeyOf(wide.rows[i], index) = k}

TypeColumns(wide, index) == Range(wide.columns) \ Range(index)

\* entity k has a recognized record that carries a non-null value
HasValue(df, index, ntypes, ctypes, vcol, k) ==
    \E t \in DeclaredTypes(ntypes, ctypes) :
        notna(FirstNonNull(df, index, ntypes, vcol, k, t))

(***************************************************************************)
(* C1, as stated: with several records for one (entity, type) pair the     *)
(* wide cell holds the value carried by the first of them in input order.  *)
(***************************************************************************)
C1Stated(df, wide, index, ntypes, ctypes, vcol) ==
    \A k \in Entities(df, index, ntypes, ctypes), t \in DeclaredTypes(ntypes, ctypes) :
        LET P == PairIdx(df, index, k, t)
        IN  Cardinality(P) >= 2 =>
              \A i \in RowsOf(wide, index, k) :
                  t \in DOMAIN wide.rows[i] =>
                      wide.rows[i][t] = ValueOf(df[Minimum(P)], ntypes, vcol)

\* C1 (original statement): the cell of a duplicated pair is the value of the
\* first record of the pair, whether or not that value is null.
C1_FirstRecordWins ==
    /\ GroupsPivoted =>
         C1Stated(df_groups, df_groups_wide, group_index, numeric_types, choice_types, "mean")
    /\ IndivPivoted =>
         C1Stated(df_indiv, df_indiv_wide, indiv_index, indiv_numeric_types,
                  indiv_choice_types, "value")

C1Amended(df, wide, index, ntypes, ctypes, vcol) ==
    \A k \in Entities(df, index, ntypes, ctypes), t \in DeclaredTypes(ntypes, ctypes) :
        LET P == PairIdx(df, index, k, t)
            v == FirstNonNull(df, index, ntypes, vcol, k, t)
        IN  Cardinality(P) >= 2 =>
              /\ \A i \in RowsOf(wide, index, k) :
                    t \in DOMAIN wide.rows[i] => wide.rows[i][t] = v
              /\ (CompleteKey(k) /\ notna(v)) =>
                    \E i \in RowsOf(wide, index, k) :
                        t \in DOMAIN wide.rows[i] /\ wide.rows[i][t] = v

\* C1 (amended): with several records for one (entity, type) pair the wide
\* cell holds the first NON-NULL value among them in input order (a null
\* carried by an earlier record is skipped); every later value is discarded.
C1_FirstNonNullWins ==
    /\ GroupsPivoted =>
         C1Amended(df_groups, df_groups_wide, group_index, numeric_types, choice_types, "mean")
    /\ IndivPivoted =>
         C1Amended(df_indiv, df_indiv_wide, indiv_index, indiv_numeric_types,
                   indiv_choice_types, "value")

\* C1 witness: a group has two age records carrying 34 and then 50, and its
\* wide row holds 34.
C1_Witness ==
    /\ GroupsPivoted
    /\ \E i, j \in DOMAIN df_groups :
          /\ i < j
          /\ KeyOf(df_groups[i], group_index) = KeyOf(df_groups[j], group_index)
          /\ df_groups[i].measurement_type = <<"age">>
          /\ df_groups[j].measurement_type = <<"age">>
          /\ df_groups[i].mean = Int2Num(34) /\ df_groups[j].mean = Int2Num(50)
          /\ \E n \in DOMAIN df_groups_wide.rows :
                /\ KeyOf(df_groups_wide.rows[n], group_index) = KeyOf(df_groups[i], group_index)
                /\ df_groups_wide.rows[n]["age"] = Int2Num(34)

(***************************************************************************)
(* C2                                                                      *)
(***************************************************************************)
C2Stated(df, wide, index, ntypes, ctypes, vcol) ==
    \A k \in Entities(df, index, ntypes, ctypes), t \in DeclaredTypes(ntypes, ctypes) :
        \E i \in RowsOf(wide, index, k) :
            /\ t \in DOMAIN wide.rows[i]
            /\ wide.rows[i][t] = FirstNonNull(df, index, ntypes, vcol, k, t)

\* C2 (original statement): every entity with a recognized record has, for
\* every recognized type, a wide cell equal to the first non-null value of the
\* pair, null when the pair has none (a null cell, never an absent one).
C2_EveryCellPresent ==
    /\ GroupsPivoted =>
         C2Stated(df_groups, df_groups_wide, group_index, numeric_types, choice_types, "mean")
    /\ IndivPivoted =>
         C2Stated(df_indiv, df_indiv_wide, indiv_index, indiv_numeric_types,
                  indiv_choice_types, "value")

C2Amended(df, wide, index, ntypes, ctypes, vcol) ==
    /\ \A i \in DOMAIN wide.rows : \A t \in TypeColumns(wide, index) :
          LET k == KeyOf(wide.rows[i], index)
              v == FirstNonNull(df, index, ntypes, vcol, k, t)
          IN  /\ t \in DOMAIN wide.rows[i]
              /\ wide.rows[i][t] = v
              /\ isna(wide.rows[i][t]) <=>
                   \A j \in PairIdx(df, index, k, t) : isna(ValueOf(df[j], ntypes, vcol))
    /\ \A k \in Entities(df, index, ntypes, ctypes), t \in DeclaredTypes(ntypes, ctypes) :
          (CompleteKey(k) /\ notna(FirstNonNull(df, index, ntypes, vcol, k, t))) =>
              \E i \in RowsOf(wide, index, k) : t \in DOMAIN wide.rows[i]

\* C2 (amended): for every row of the wide table and every measurement-type
\* column the table has, the cell equals the first non-null value of that
\* (entity, type) pair in input order and is null exactly when no record of the
\* pair carries a non-null value; every pair that carries a non-null value (and
\* has complete id columns) has such a cell.
C2_CellIsFirstNonNull ==
    /\ GroupsPivoted =>
         C2Amended(df_groups, df_groups_wide, group_index, numeric_types, choice_types, "mean")
    /\ IndivPivoted =>
         C2Amended(df_indiv, df_indiv_wide, indiv_index, indiv_numeric_types,
                   indiv_choice_types, "value")

\* C2 witness: group 1 has a null age record and then age = 34, group 2 has
\* only a null age record and a sex; group 1's cell is 34 and group 2's age
\* cell is null.
C2_Witness ==
    /\ GroupsPivoted
    /\ \E i, j \in DOMAIN df_groups :
          /\ i < j
          /\ KeyOf(df_groups[i], group_index) = KeyOf(df_groups[j], group_index)
          /\ df_groups[i].measurement_type = <<"age">> /\ df_groups[i].mean = NaN
          /\ df_groups[j].measurement_type = <<"age">> /\ df_groups[j].mean = Int2Num(34)
          /\ \E n \in DOMAIN df_groups_wide.rows :
                /\ KeyOf(df_groups_wide.rows[n], group_index) = KeyOf(df_groups[i], group_index)
                /\ df_groups_wide.rows[n]["age"] = Int2Num(34)
    /\ \E n \in DOMAIN df_groups_wide.rows :
          "age" \in DOMAIN df_groups_wide.rows[n] /\ df_groups_wide.rows[n]["age"] = NaN

(***************************************************************************)
(* C3                                                                      *)
(***************************************************************************)
HasRecordOf(df, index, types, k) ==
    \E r \in Range(df) :
        KeyOf(r, index) = k /\ r.measurement_type # NaN /\ r.measurement_type[1] \in Range(types)

\* the row i of wide is null in every column of the subset `types`
NullIn(wide, index, types, i) ==
    \A t \in TypeColumns(wide, index) \cap Range(types) : wide.rows[i][t] = NaN

OneRowNullOtherSubset(df, wide, index, ntypes, ctypes, k) ==
    /\ Cardinality(RowsOf(wide, index, k)) = 1
    /\ \A i \in RowsOf(wide, index, k) :
          /\ ~HasRecordOf(df, index, ntypes, k) => NullIn(wide, index, ntypes, i)
          /\ ~HasRecordOf(df, index, ctypes, k) => NullIn(wide, index, ctypes, i)

C3Stated(df, wide, index, ntypes, ctypes) ==
    \A k \in Entities(df, index, ntypes, ctypes) :
        OneRowNullOtherSubset(df, wide, index, ntypes, ctypes, k)

\* C3 (original statement): every entity with at least one record of a numeric
\* or of a choice type is exactly one row of the wide table, null in every
\* column of a subset it has no record in.
C3_EveryEntityOneRow ==
    /\ GroupsPivoted =>
         C3Stated(df_groups, df_groups_wide, group_index, numeric_types, choice_types)
    /\ IndivPivoted =>
         C3Stated(df_indiv, df_indiv_wide, indiv_index, indiv_numeric_types,
                  indiv_choice_types)

C3Amended(df, wide, index, ntypes, ctypes, vcol) ==
    \A k \in Entities(df, index, ntypes, ctypes) :
        (CompleteKey(k) /\ HasValue(df, index, ntypes, ctypes, vcol, k)) =>
            OneRowNullOtherSubset(df, wide, index, ntypes, ctypes, k)

\* C3 (amended): every entity whose id columns are all present and that has at
\* least one numeric-type or choice-type record carrying a non-null value is
\* exactly one row of the wide table; with records in only one of the two
\* subsets it is not dropped and is null in every column of the other subset.
C3_OuterMergeComplete ==
    /\ GroupsPivoted =>
         C3Amended(df_groups, df_groups_wide, group_index, numeric_types, choice_types, "mean")
    /\ IndivPivoted =>
         C3Amended(df_indiv, df_indiv_wide, indiv_index, indiv_numeric_types,
                   indiv_choice_types, "value")

\* C3 witness: group 1 has only a numeric record (age 34), group 2 only a choice
\* record (sex f); both are rows, group 1 with a null sex and group 2 with a
\* null age.
C3_Witness ==
    /\ GroupsPivoted
    /\ Len(df_groups) = 2
    /\ df_groups[1].group_pk = <<1>> /\ df_groups[1].measurement_type = <<"age">>
    /\ df_groups[1].mean = Int2Num(34)
    /\ df_groups[2].group_pk = <<2>> /\ df_groups[2].measurement_type = <<"sex">>
    /\ df_groups[2].choice = << <<"f">> >>
    /\ Len(df_groups_wide.rows) = 2
    /\ df_groups_wide.rows[1]["age"] = Int2Num(34) /\ df_groups_wide.rows[1]["sex"] = NaN
    /\ df_groups_wide.rows[2]["age"] = NaN /\ df_groups_wide.rows[2]["sex"] = << <<"f">> >>

(***************************************************************************)
(* C4                                                                      *)
(***************************************************************************)
RemoveUnrecognized(df, ntypes, ctypes) ==
    LET Rec(r) == IsRecognized(r, ntypes, ctypes)
    IN  SelectSeq(df, Rec)

\* C4: the wide table of any input equals the wide table of the same input
\* with the records of unrecognized measurement types removed.
C4_UnrecognizedDiscarded ==
    /\ GroupsPivoted =>
         df_groups_wide = groups_wide(RemoveUnrecognized(df_groups, numeric_types, choice_types))
    /\ IndivPivoted =>
         df_indiv_wide = indiv_wide(RemoveUnrecognized(df_indiv, indiv_numeric_types,
                                                       indiv_choice_types))

\* C4 witness: the input holds an 'alcohol' record (in neither type list) next
\* to recognized records, and the wide table has a row and no 'alcohol' column.
C4_Witness ==
    /\ GroupsPivoted
    /\ \E i \in DOMAIN df_groups : df_groups[i].measurement_type = <<"alcohol">>
    /\ Len(df_groups_wide.rows) >= 1
    /\ "alcohol" \notin Range(df_groups_wide.columns)
    /\ \A i \in DOMAIN df_groups_wide.rows : "alcohol" \notin DOMAIN df_groups_wide.rows[i]

(***************************************************************************)
(* C5                                                                      *)
(***************************************************************************)
\* C5 (original statement): at most one row per (study_sid, entity pk) pair,
\* also when one pk occurs with differing names.
C5_OneRowPerStudyAndPk ==
    /\ GroupsPivoted =>
         \A i, j \in DOMAIN df_groups_wide.rows :
             (/\ df_groups_wide.rows[i].study_sid = df_groups_wide.rows[j].study_sid
              /\ df_groups_wide.rows[i].group_pk = df_groups_wide.rows[j].group_pk) => i = j
    /\ IndivPivoted =>
         \A i, j \in DOMAIN df_indiv_wide.rows :
             (/\ df_indiv_wide.rows[i].study_sid = df_indiv_wide.rows[j].study_sid
              /\ df_indiv_wide.rows[i].individual_pk = df_indiv_wide.rows[j].individual_pk)
                 => i = j

\* C5 (amended): at most one row per combination of the values of ALL id
\* columns (study_sid, study_name, pk, name, group_count / individual_group_pk).
C5_OneRowPerIdColumns ==
    /\ GroupsPivoted =>
         \A i, j \in DOMAIN df_groups_wide.rows :
             KeyOf(df_groups_wide.rows[i], group_index)
               = KeyOf(df_groups_wide.rows[j], group_index) => i = j
    /\ IndivPivoted =>
         \A i, j \in DOMAIN df_indiv_wide.rows :
             KeyOf(df_indiv_wide.rows[i], indiv_index)
               = KeyOf(df_indiv_wide.rows[j], indiv_index) => i = j

\* C5 witness: one group has an age, then a sex record, and the wide table is
\* that group's single row.
C5_Witness ==
    /\ GroupsPivoted
    /\ Len(df_groups) = 2
    /\ KeyOf(df_groups[1], group_index) = KeyOf(df_groups[2], group_index)
    /\ df_groups[1].mean = Int2Num(50) /\ df_groups[2].choice = << <<"f">> >>
    /\ Len(df_groups_wide.rows) = 1
    /\ KeyOf(df_groups_wide.rows[1], group_index) = KeyOf(df_groups[1], group_index)

(***************************************************************************)
(* C6                                                                      *)
(***************************************************************************)
NoDuplicates(s) == \A i, j \in DOMAIN s : s[i] = s[j] => i = j

\* cols is index, then the types of N in some order, then the types of C
ColumnLayout(cols, index, N, C) ==
    /\ Len(cols) >= Len(index)
    /\ SubSeq(cols, 1, Len(index)) = index
    /\ NoDuplicates(cols)
    /\ Range(cols) \ Range(index) = N \cup C
    /\ \A i, j \in DOMAIN cols : (cols[i] \in N /\ cols[j] \in C) => i < j

C6Stated(wide, index, ntypes, ctypes) ==
    /\ ColumnLayout(wide.columns, index, Range(ntypes), Range(ctypes))
    /\ \A i \in DOMAIN wide.rows : DOMAIN wide.rows[i] = Range(wide.columns)

\* C6 (original statement): the columns are the id columns, then all numeric
\* types, then all choice types, whether or not any record has the type.
C6_AllDeclaredColumns ==
    /\ GroupsPivoted => C6Stated(df_groups_wide, group_index, numeric_types, choice_types)
    /\ IndivPivoted =>
         C6Stated(df_indiv_wide, indiv_index, indiv_numeric_types, indiv_choice_types)

\* the types of `types` for which an entity with complete id columns carries a
\* non-null value
SeenTypes(df, index, ntypes, ctypes, vcol, types) ==
    {t \in Range(types) :
        \E k \in Entities(df, index, ntypes, ctypes) :
            CompleteKey(k) /\ notna(FirstNonNull(df, index, ntypes, vcol, k, t))}

C6Amended(df, wide, index, ntypes, ctypes, vcol) ==
    /\ ColumnLayout(wide.columns, index,
                    SeenTypes(df, index, ntypes, ctypes, vcol, ntypes),
                    SeenTypes(df, index, ntypes, ctypes, vcol, ctypes))
    /\ \A i \in DOMAIN wide.rows :
          /\ DOMAIN wide.rows[i] = Range(wide.columns)
          /\ \A t \in TypeColumns(wide, index) :
                PairIdx(df, index, KeyOf(wide.rows[i], index), t) = {}
                    => wide.rows[i][t] = NaN

\* C6 (amended): the columns are the id columns, then the numeric types for
\* which some entity carries a non-null value, then the choice types for which
\* some entity does, each exactly once; a declared type that no entity carries
\* a value for is not a column, and a type that is a column holds null in the
\* rows of the entities without a record of it.
C6_SeenColumnsOnly ==
    /\ GroupsPivoted =>
         C6Amended(df_groups, df_groups_wide, group_index, numeric_types, choice_types, "mean")
    /\ IndivPivoted =>
         C6Amended(df_indiv, df_indiv_wide, indiv_index, indiv_numeric_types,
                   indiv_choice_types, "value")

\* C6 witness: the input is one group's age = 34 and sex = 'f'; the wide table
\* is one row with age 34 and sex f under the columns ids + age + sex.
C6_Witness ==
    /\ GroupsPivoted
    /\ Len(df_groups) = 2
    /\ KeyOf(df_groups[1], group_index) = KeyOf(df_groups[2], group_index)
    /\ df_groups[1].measurement_type = <<"sex">> /\ df_groups[1].choice = << <<"f">> >>
    /\ df_groups[2].measurement_type = <<"age">> /\ df_groups[2].mean = Int2Num(34)
    /\ df_groups_wide.columns = group_index \o <<"age", "sex">>
    /\ Len(df_groups_wide.rows) = 1
    /\ df_groups_wide.rows[1]["age"] = Int2Num(34) /\ df_groups_wide.rows[1]["sex"] = << <<"f">> >>

(***************************************************************************)
(* C7                                                                      *)
(***************************************************************************)
\* C7: an input that is empty, or in which no record has a recognized type,
\* gives a wide table with exactly the id columns and no rows.
C7_EmptyInputEmptyTable ==
    /\ (GroupsPivoted /\ \A r \in Range(df_groups) : ~IsRecognized(r, numeric_types, choice_types))
          => df_groups_wide = [columns |-> group_index, rows |-> <<>>]
    /\ (IndivPivoted
        /\ \A r \in Range(df_indiv) : ~IsRecognized(r, indiv_numeric_types, indiv_choice_types))
          => df_indiv_wide = [columns |-> indiv_index, rows |-> <<>>]

\* C7 witness: the groups input is the empty sequence and the individuals input
\* holds only 'alcohol' records; both wide tables are the bare id columns.
C7_Witness ==
    /\ IndivPivoted
    /\ df_groups = <<>>
    /\ df_groups_wide = [columns |-> group_index, rows |-> <<>>]
    /\ Len(df_indiv) = 2
    /\ \A i \in DOMAIN df_indiv : df_indiv[i].measurement_type = <<"alcohol">>
    /\ df_indiv_wide = [columns |-> indiv_index, rows |-> <<>>]

(***************************************************************************)
(* C29                                                                     *)
(***************************************************************************)
\* every row of wide is an entity with complete id columns and a non-null value
\* in a recognized record, and an entity without either has no row
NoRowWithoutValue(df, wide, index, ntypes, ctypes, vcol) ==
    /\ \A i \in DOMAIN wide.rows :
          LET k == KeyOf(wide.rows[i], index)
          IN  /\ CompleteKey(k)
              /\ \E j \in DOMAIN df :
                    /\ KeyOf(df[j], index) = k
                    /\ IsRecognized(df[j], ntypes, ctypes)
                    /\ notna(ValueOf(df[j], ntypes, vcol))
    /\ \A k \in Entities(df, index, ntypes, ctypes) :
          (~CompleteKey(k) \/ ~HasValue(df, index, ntypes, ctypes, vcol, k)) =>
              RowsOf(wide, index, k) = {}

\* C29: an entity is a row of the wide table only if all its id columns are
\* non-null and one of its recognized-type records carries a non-null value in
\* the column read for its kind (mean or value for a numeric type, choice for a
\* choice type); an entity whose recognized records all carry null there, or
\* with a null id column, is no row.
C29_EmptyEntitiesDropped ==
    /\ GroupsPivoted =>
         NoRowWithoutValue(df_groups, df_groups_wide, group_index, numeric_types,
                           choice_types, "mean")
    /\ IndivPivoted =>
         NoRowWithoutValue(df_indiv, df_indiv_wide, indiv_index, indiv_numeric_types,
                           indiv_choice_types, "value")

\* C29 witness: group 1 has the age 34, group 2 only a null age record, and
\* the group without a name the age 34: the wide table is the one row of
\* group 1.
C29_Witness ==
    /\ GroupsPivoted
    /\ Len(df_groups) = 3
    /\ \E a, b, c \in DOMAIN df_groups :
          /\ df_groups[a].group_pk = <<1>> /\ df_groups[a].mean = Int2Num(34)
          /\ df_groups[b].group_pk = <<2>> /\ df_groups[b].measurement_type = <<"age">>
          /\ df_groups[b].mean = NaN
          /\ df_groups[c].group_name = NaN /\ df_groups[c].mean = Int2Num(34)
    /\ Len(df_groups_wide.rows) = 1
    /\ df_groups_wide.rows[1]["group_pk"] = <<1>>
    /\ df_groups_wide.rows[1]["age"] = Int2Num(34)

(***************************************************************************)
(* C22                                                                     *)
(***************************************************************************)
\* how often row r occurs in the table
Occurrences(table, r) == Cardinality({i \in DOMAIN table.rows : table.rows[i] = r})

\* the same columns and the same rows, each as often, in whatever row order
SameRowSet(a, b) ==
    /\ a.columns = b.columns
    /\ Len(a.rows) = Len(b.rows)
    /\ \A r \in Range(a.rows) \cup Range(b.rows) : Occurrences(a, r) = Occurrences(b, r)

Zero == Int2Num(0)

\* the string literals of the female checks
Str_f == <<"f">>

Str_F == <<"F">>

Str_female == <<"f", "e", "m", "a", "l", "e">>

\* BMI with the height left in centimetres
calc_bmi_cm(weight_kg, height_cm) ==
    [i \in DOMAIN weight_kg |->
        IF FGreater(weight_kg[i], Zero) /\ FGreater(height_cm[i], Zero)
        THEN FDiv(weight_kg[i], FMul(height_cm[i], height_cm[i]))
        ELSE NaN]

calc_bmi(weight_kg, height_cm) ==
    LET mask == {i \in DOMAIN weight_kg :
                    FGreater(weight_kg[i], Zero) /\ FGreater(height_cm[i], Zero)}
        height_m == [i \in mask |-> FDiv(height_cm[i], Int2Num(100))]
    IN  [i \in DOMAIN weight_kg |->
            IF i \in mask THEN FDiv(weight_kg[i], FMul(height_m[i], height_m[i]))
            ELSE NaN]

\* pk_calculations.py: calc_bmi
pk_calc_bmi(weight_kg, height_cm) ==
    LET mask == {i \in DOMAIN weight_kg :
                    FGreater(weight_kg[i], Zero) /\ FGreater(height_cm[i], Zero)}
        height_m == [i \in mask |-> FDiv(height_cm[i], Int2Num(100))]
    IN  [i \in DOMAIN weight_kg |->
            IF i \in mask THEN FDiv(weight_kg[i], FMul(height_m[i], height_m[i]))
            ELSE NaN]

\* sex.isin(values): the comparison without str.lower()
str_isin(sex, values) ==
    {i \in DOMAIN sex : notna(sex[i]) /\ sex[i][1] \in values}

\* sex.str.lower().isin(values): False for a missing label
str_lower_isin(sex, values) ==
    {i \in DOMAIN sex : notna(sex[i]) /\ lower(sex[i][1]) \in values}

\* the female correction applied to the rows that are not female
calc_creatinine_clearance_male(age, weight_kg, sex, scr) ==
    LET crcl == [i \in DOMAIN age |->
                    FDiv(FMul(FSub(Int2Num(140), age[i]), weight_kg[i]),
                         FMul(Int2Num(72), scr))]
        is_female == str_lower_isin(sex, {Str_f, Str_female, Str_F})
    IN  [i \in DOMAIN crcl |-> IF i \notin is_female THEN FMul(crcl[i], Num(85, 100))
                                                     ELSE crcl[i]]

calc_creatinine_clearance(age, weight_kg, sex, scr) ==
    LET crcl == [i \in DOMAIN age |->
                    FDiv(FMul(FSub(Int2Num(140), age[i]), weight_kg[i]),
                         FMul(Int2Num(72), scr))]
        is_female == str_lower_isin(sex, {Str_f, Str_female, Str_F})
    IN  [i \in DOMAIN crcl |-> IF i \in is_female THEN FMul(crcl[i], Num(85, 100))
                                                  ELSE crcl[i]]

\* pk_calculations.py: calc_creatinine_clearance
pk_calc_creatinine_clearance(age, weight_kg, sex, scr) ==
    LET crcl == [i \in DOMAIN age |->
                    FDiv(FMul(FSub(Int2Num(140), age[i]), weight_kg[i]),
                         FMul(Int2Num(72), scr))]
        is_female == str_lower_isin(sex, {Str_f, Str_female})
    IN  [i \in DOMAIN crcl |-> IF i \in is_female THEN FMul(crcl[i], Num(85, 100))
                                                  ELSE crcl[i]]

\* 03b_save_analysis.py: calc_crcl
calc_crcl(age, w, sex, scr) ==
    LET c == [i \in DOMAIN age |->
                 FDiv(FMul(FSub(Int2Num(140), age[i]), w[i]), FMul(Int2Num(72), scr))]
        female == str_lower_isin(sex, {Str_f, Str_female})
    IN  [i \in DOMAIN c |-> IF i \in female THEN FMul(c[i], Num(85, 100)) ELSE c[i]]

\* the default of the parameter scr (mg/dL)
scr_default == Int2Num(1)

(***************************************************************************)
(* calc_ideal_body_weight (Devine).  2.54, 2.3 and 45.5 are the rationals  *)
(* 254/100, 23/10 and 455/10.  ~is_female is True for a missing label, so  *)
(* an element with a height and no label gets the male value.              *)
(***************************************************************************)
\* 50 (or 45.5) + 2.3 * (height_in - 60)
devine(base, height_in) ==
    FAdd(base, FMul(Num(23, 10), FSub(height_in, Int2Num(60))))

\* the two constants exchanged
calc_ideal_body_weight_swapped(height_cm, sex) ==
    LET height_in == [i \in DOMAIN height_cm |-> FDiv(height_cm[i], Num(254, 100))]
        is_female == str_lower_isin(sex, {Str_f, Str_female})
    IN  [i \in DOMAIN height_cm |->
            IF isna(height_cm[i]) THEN NaN
            ELSE IF i \in is_female THEN devine(Int2Num(50), height_in[i])
            ELSE devine(Num(455, 10), height_in[i])]

\* the height left in centimetres
calc_ideal_body_weight_cm(height_cm, sex) ==
    LET is_female == str_lower_isin(sex, {Str_f, Str_female, Str_F})
    IN  [i \in DOMAIN height_cm |->
            IF isna(height_cm[i]) THEN NaN
            ELSE IF i \in is_female THEN devine(Num(455, 10), height_cm[i])
            ELSE devine(Int2Num(50), height_cm[i])]

calc_ideal_body_weight(height_cm, sex) ==
    LET height_in == [i \in DOMAIN height_cm |-> FDiv(height_cm[i], Num(254, 100))]
        is_female == str_lower_isin(sex, {Str_f, Str_female, Str_F})
        is_male == DOMAIN sex \ is_female
        mask_m == {i \in is_male : notna(height_cm[i])}
        mask_f == {i \in is_female : notna(height_cm[i])}
    IN  [i \in DOMAIN height_cm |->
            IF i \in mask_f THEN devine(Num(455, 10), height_in[i])
            ELSE IF i \in mask_m THEN devine(Int2Num(50), height_in[i])
            ELSE NaN]

\* pk_calculations.py: calc_ideal_body_weight
pk_calc_ideal_body_weight(height_cm, sex) ==
    LET height_in == [i \in DOMAIN height_cm |-> FDiv(height_cm[i], Num(254, 100))]
        is_female == str_lower_isin(sex, {Str_f, Str_female})
        mask_m == {i \in DOMAIN sex \ is_female : notna(height_cm[i])}
        mask_f == {i \in is_female : notna(height_cm[i])}
    IN  [i \in DOMAIN height_cm |->
            IF i \in mask_f THEN devine(Num(455, 10), height_in[i])
            ELSE IF i \in mask_m THEN devine(Int2Num(50), height_in[i])
            ELSE NaN]

(***************************************************************************)
(* encode_binary.  positive_values is a list of strings; the result holds  *)
(* the floats 1.0 and 0.0 (astype(int) assigned into a float Series).      *)
(***************************************************************************)
\* [v.lower() for v in positive_values]
lower_all(positive_values) == {lower(positive_values[k]) : k \in DOMAIN positive_values}

\* the positive values compared as they are listed
encode_binary_as_listed(series, positive_values) ==
    [i \in DOMAIN series |->
        IF isna(series[i]) THEN NaN
        ELSE IF lower(series[i][1]) \in Range(positive_values) THEN Int2Num(1)
        ELSE Zero]

encode_binary(series, positive_values) ==
    LET mask == {i \in DOMAIN series : notna(series[i])}
        sel == [i \in mask |-> series[i]]
        hit == str_lower_isin(sel, lower_all(positive_values))
    IN  [i \in DOMAIN series |->
            IF i \in mask THEN (IF i \in hit THEN Int2Num(1) ELSE Zero) ELSE NaN]

\* pk_calculations.py: encode_binary
pk_encode_binary(series, positive_values) ==
    LET mask == {i \in DOMAIN series : notna(series[i])}
        sel == [i \in mask |-> series[i]]
        hit == str_lower_isin(sel, lower_all(positive_values))
    IN  [i \in DOMAIN series |->
            IF i \in mask THEN (IF i \in hit THEN Int2Num(1) ELSE Zero) ELSE NaN]

\* 03b_save_analysis.py: encode_bin
encode_bin(s, pos) ==
    LET m == {i \in DOMAIN s : notna(s[i])}
        sel == [i \in m |-> s[i]]
        hit == str_lower_isin(sel, lower_all(pos))
    IN  [i \in DOMAIN s |-> IF i \in m THEN (IF i \in hit THEN Int2Num(1) ELSE Zero) ELSE NaN]

(***************************************************************************)
(* pd.cut(x, bins, labels, right=False): the bin of x is                   *)
(* bins.searchsorted(x, side='right'), the number of edges <= x; the       *)
(* result is missing for a missing x, for bin 0 and for bin len(bins).     *)
(***************************************************************************)
\* side='left', as right=True bins: the number of edges < x
searchsorted_left(bins, x) == Cardinality({k \in DOMAIN bins : FLess(bins[k], x)})

searchsorted_right(bins, x) == Cardinality({k \in DOMAIN bins : ~FLess(x, bins[k])})

cut(x, bins, labels) ==
    [i \in DOMAIN x |->
        IF isna(x[i]) THEN NaN
        ELSE LET ids == searchsorted_right(bins, x[i])
             IN  IF ids = 0 \/ ids = Len(bins) THEN NaN ELSE <<labels[ids]>>]

age_bins == <<Int2Num(0), Int2Num(18), Int2Num(40), Int2Num(65), Int2Num(100)>>

age_labels == <<"pediatric", "young_adult", "middle_aged", "elderly">>

\* the edge 18.5 written as 18
bmi_bins_int == <<Int2Num(0), Int2Num(18), Int2Num(25), Int2Num(30), Int2Num(100)>>

bmi_bins == <<Int2Num(0), Num(185, 10), Int2Num(25), Int2Num(30), Int2Num(100)>>

bmi_labels == <<"underweight", "normal", "overweight", "obese">>

\* 03, 3f and cell 4: pd.cut(df['age'], ...)
age_category(age) == cut(age, age_bins, age_labels)

\* 03, 3g: pd.cut(df_g['bmi'], ...)
bmi_category(bmi) == cut(bmi, bmi_bins, bmi_labels)

\* pk_calculations.py: add_age_category
add_age_category(age_series) == cut(age_series, age_bins, age_labels)

\* pk_calculations.py: add_bmi_category
add_bmi_category(bmi_series) == cut(bmi_series, bmi_bins, bmi_labels)

\* 03b_save_analysis.py: the two pd.cut calls
age_category_03b(age) == cut(age, age_bins, age_labels)

bmi_category_03b(bmi) == cut(bmi, bmi_bins, bmi_labels)

(***************************************************************************)
(* Calls of the feature functions: one call per behaviour, its arguments   *)
(* drawn from bounded sets.  call.fn names the function, call.rows is the  *)
(* sequence of the argument Series' elements (the index is 1..Len), and    *)
(* call.scr is <<>> when scr is not supplied and <<x>> when x is passed.   *)
(***************************************************************************)
MaxSeries == 2

BmiWeights == {NaN, Int2Num(-70), Zero, Int2Num(70), Num(125, 2)}

BmiHeights == {NaN, Int2Num(-175), Zero, Int2Num(175), Int2Num(160)}

BmiFunctions == {"calc_bmi", "pk_calculations.calc_bmi"}

BmiCalls ==
    {[fn |-> f, rows |-> r, scr |-> <<>>] :
        f \in BmiFunctions,
        r \in UNION {[1..n -> [weight : BmiWeights, height : BmiHeights]] : n \in 1..MaxSeries}}

Str_Female == <<"F", "e", "m", "a", "l", "e">>

Str_FEMALE == <<"F", "E", "M", "A", "L", "E">>

Str_male == <<"m", "a", "l", "e">>

Str_fem == <<"f", "e", "m">>

SexLabels == {NaN, <<Str_f>>, <<Str_F>>, <<Str_female>>, <<Str_Female>>, <<Str_FEMALE>>,
              <<Str_male>>, <<Str_fem>>}

\* (age, weight, sex) of one element: every label at age 40 and 70 kg, and
\* missing, zero, negative and over-140 numbers
CrclRows ==
    {[age |-> Int2Num(40), weight |-> Int2Num(70), sex |-> x] : x \in SexLabels}
      \cup {[age |-> a, weight |-> w, sex |-> x] :
              a \in {NaN, Int2Num(150), Int2Num(-3)},
              w \in {NaN, Num(125, 2)},
              x \in {<<Str_F>>, <<Str_male>>}}
      \cup {[age |-> Int2Num(40), weight |-> w, sex |-> <<Str_female>>] :
              w \in {Zero, Int2Num(-70)}}

CrclFunctions == {"calc_creatinine_clearance", "pk_calculations.calc_creatinine_clearance",
                  "calc_crcl"}

ScrArgs == {<<>>, <<Int2Num(2)>>, <<Num(1, 2)>>}

CrclCalls ==
    {[fn |-> f, rows |-> r, scr |-> c] :
        f \in CrclFunctions, c \in ScrArgs,
        r \in UNION {[1..n -> CrclRows] : n \in 1..MaxSeries}}

IbwFunctions == {"calc_ideal_body_weight", "pk_calculations.calc_ideal_body_weight"}

IbwHeights == {NaN, Zero, Int2Num(180), Num(335, 2)}

IbwCalls ==
    {[fn |-> f, rows |-> r] :
        f \in IbwFunctions,
        r \in UNION {[1..n -> [height : IbwHeights, sex : SexLabels]] : n \in 1..MaxSeries}}

Str_yes == <<"y", "e", "s">>

Str_true == <<"t", "r", "u", "e">>

Str_smoker == <<"s", "m", "o", "k", "e", "r">>

Str_Y == <<"Y">>

Str_healthy == <<"h", "e", "a", "l", "t", "h", "y">>

Str_Yes == <<"Y", "e", "s">>

Str_No == <<"N", "o">>

Str_y == <<"y">>

Str_TRUE == <<"T", "R", "U", "E">>

\* the lists the scripts pass, and the list ["yes", "true"]
smoking_positive == <<Str_yes, Str_true, Str_smoker, Str_Y>>

healthy_positive == <<Str_yes, Str_true, Str_Y, Str_healthy>>

oc_positive == <<Str_yes, Str_true, Str_Y>>

female_positive == <<Str_F, Str_female, Str_f>>

PositiveLists == {smoking_positive, healthy_positive, oc_positive, female_positive,
                  <<Str_yes, Str_true>>, <<>>}

EncodeFunctions == {"encode_binary", "pk_calculations.encode_binary", "encode_bin"}

EncodeValues == {NaN, <<Str_Yes>>, <<Str_No>>, <<Str_y>>, <<Str_TRUE>>, <<Str_F>>,
                 <<Str_healthy>>, <<Str_male>>}

EncodeCalls ==
    {[fn |-> f, rows |-> r, positive_values |-> pos] :
        f \in EncodeFunctions, pos \in PositiveLists,
        r \in UNION {[1..n -> [value : EncodeValues]] : n \in 1..MaxSeries}}

AgeFunctions == {"age_category", "pk_calculations.add_age_category", "03b.age_category"}

BmiCatFunctions == {"bmi_category", "pk_calculations.add_bmi_category", "03b.bmi_category"}

CutAges == {NaN, Int2Num(-1), Zero, Int2Num(17), Num(179, 10), Int2Num(18), Int2Num(39),
            Int2Num(40), Int2Num(64), Int2Num(65), Int2Num(99), Int2Num(100), Int2Num(120)}

CutBmis == {NaN, Num(-1, 10), Zero, Num(184, 10), Num(185, 10), Num(249, 10), Int2Num(25),
            Num(299, 10), Int2Num(30), Num(999, 10), Int2Num(100), Num(1, 0)}

CutCalls ==
    {[fn |-> f, rows |-> r] :
        f \in AgeFunctions,
        r \in UNION {[1..n -> [value : CutAges]] : n \in 1..MaxSeries}}
      \cup {[fn |-> f, rows |-> r] :
              f \in BmiCatFunctions,
              r \in UNION {[1..n -> [value : CutBmis]] : n \in 1..MaxSeries}}

\* is_female as the scripts encode it: the sex labels against ['F', 'female', 'f']
FemaleEncodeCalls ==
    {[fn |-> f, rows |-> r, positive_values |-> female_positive] :
        f \in EncodeFunctions,
        r \in UNION {[1..n -> [value : SexLabels]] : n \in 1..MaxSeries}}

Column(rows, c) == [i \in DOMAIN rows |-> rows[i][c]]

ScrOf(c) == IF c.scr = <<>> THEN scr_default ELSE c.scr[1]

InitCalc ==
    /\ pc = "call"
    /\ call \in BmiCalls \cup CrclCalls \cup IbwCalls \cup EncodeCalls \cup CutCalls
                \cup FemaleEncodeCalls
    /\ result = <<>>
    /\ df_groups = <<>> /\ df_indiv = <<>>
    /\ df_groups_wide = NoTable /\ df_indiv_wide = NoTable
    /\ df_g = NoTable /\ df_i = NoTable /\ df_g_03b = NoTable
    /\ PagesIdle /\ JoinIdle

Return(value) ==
    /\ result' = value
    /\ pc' = "returned"
    /\ UNCHANGED <<call, longVars, wideVars, feVars, pageVars, joinVars>>

CallCalcBmi ==
    /\ pc = "call" /\ call.fn = "calc_bmi"
    /\ Return(calc_bmi(Column(call.rows, "weight"), Column(call.rows, "height")))

CallPkCalcBmi ==
    /\ pc = "call" /\ call.fn = "pk_calculations.calc_bmi"
    /\ Return(pk_calc_bmi(Column(call.rows, "weight"), Column(call.rows, "height")))

CallCalcCreatinineClearance ==
    /\ pc = "call" /\ call.fn = "calc_creatinine_clearance"
    /\ Return(calc_creatinine_clearance(Column(call.rows, "age"), Column(call.rows, "weight"),
                                        Column(call.rows, "sex"), ScrOf(call)))

CallPkCalcCreatinineClearance ==
    /\ pc = "call" /\ call.fn = "pk_calculations.calc_creatinine_clearance"
    /\ Return(pk_calc_creatinine_clearance(Column(call.rows, "age"),
                                           Column(call.rows, "weight"),
                                           Column(call.rows, "sex"), ScrOf(call)))

CallCalcCrcl ==
    /\ pc = "call" /\ call.fn = "calc_crcl"
    /\ Return(calc_crcl(Column(call.rows, "age"), Column(call.rows, "weight"),
                        Column(call.rows, "sex"), ScrOf(call)))

CallCalcIdealBodyWeight ==
    /\ pc = "call" /\ call.fn = "calc_ideal_body_weight"
    /\ Return(calc_ideal_body_weight(Column(call.rows, "height"), Column(call.rows, "sex")))

CallPkCalcIdealBodyWeight ==
    /\ pc = "call" /\ call.fn = "pk_calculations.calc_ideal_body_weight"
    /\ Return(pk_calc_ideal_body_weight(Column(call.rows, "height"),
                                        Column(call.rows, "sex")))

CallEncodeBinary ==
    /\ pc = "call" /\ call.fn = "encode_binary"
    /\ Return(encode_binary(Column(call.rows, "value"), call.positive_values))

CallPkEncodeBinary ==
    /\ pc = "call" /\ call.fn = "pk_calculations.encode_binary"
    /\ Return(pk_encode_binary(Column(call.rows, "value"), call.positive_values))

CallEncodeBin ==
    /\ pc = "call" /\ call.fn = "encode_bin"
    /\ Return(encode_bin(Column(call.rows, "value"), call.positive_values))

CallAgeCategory ==
    /\ pc = "call" /\ call.fn = "age_category"
    /\ Return(age_category(Column(call.rows, "value")))

CallAddAgeCategory ==
    /\ pc = "call" /\ call.fn = "pk_calculations.add_age_category"
    /\ Return(add_age_category(Column(call.rows, "value")))

CallAgeCategory03b ==
    /\ pc = "call" /\ call.fn = "03b.age_category"
    /\ Return(age_category_03b(Column(call.rows, "value")))

CallBmiCategory ==
    /\ pc = "call" /\ call.fn = "bmi_category"
    /\ Return(bmi_category(Column(call.rows, "value")))

CallAddBmiCategory ==
    /\ pc = "call" /\ call.fn = "pk_calculations.add_bmi_category"
    /\ Return(add_bmi_category(Column(call.rows, "value")))

CallBmiCategory03b ==
    /\ pc = "call" /\ call.fn = "03b.bmi_category"
    /\ Return(bmi_category_03b(Column(call.rows, "value")))

NextCalc ==
    \/ CallCalcBmi
    \/ CallPkCalcBmi
    \/ CallCalcCreatinineClearance
    \/ CallPkCalcCreatinineClearance
    \/ CallCalcCrcl
    \/ CallCalcIdealBodyWeight
    \/ CallPkCalcIdealBodyWeight
    \/ CallEncodeBinary
    \/ CallPkEncodeBinary
    \/ CallEncodeBin
    \/ CallAgeCategory
    \/ CallAddAgeCategory
    \/ CallAgeCategory03b
    \/ CallBmiCategory
    \/ CallAddBmiCategory
    \/ CallBmiCategory03b

SpecCalc == InitCalc /\ [][NextCalc]_vars

(***************************************************************************)
(* C9                                                                      *)
(***************************************************************************)
Returned(fns) == pc = "returned" /\ call.fn \in fns

IsPositive(x) == notna(x) /\ x[1][1] > 0 /\ x[1][2] > 0

\* weight / (height/100)^2 as one fraction, for finite positive operands
BmiFormula(w, h) ==
    Num(w[1][1] * 10000 * h[1][2] * h[1][2], w[1][2] * h[1][1] * h[1][1])

\* C9: for weight > 0 and height > 0 the bmi is weight / (height/100)^2; when
\* either is <= 0 (or missing) the result is null.
C9_BmiFormulaAndGuard ==
    Returned(BmiFunctions) =>
        /\ DOMAIN result = DOMAIN call.rows
        /\ \A i \in DOMAIN call.rows :
              LET w == call.rows[i].weight
                  h == call.rows[i].height
              IN  IF IsPositive(w) /\ IsPositive(h)
                  THEN result[i] = BmiFormula(w, h)
                  ELSE result[i] = NaN

\* C9 witness: a Series of two elements, (70 kg, 175 cm) and (70 kg, 0 cm),
\* gives bmi 70 / 1.75^2 = 22.857... = 160/7 and null.
C9_Witness ==
    /\ Returned({"calc_bmi"})
    /\ Len(call.rows) = 2
    /\ call.rows[1] = [weight |-> Int2Num(70), height |-> Int2Num(175)]
    /\ call.rows[2] = [weight |-> Int2Num(70), height |-> Zero]
    /\ result[1] = Num(160, 7)
    /\ result[2] = NaN

(***************************************************************************)
(* C10                                                                     *)
(***************************************************************************)
\* the labels that are 'f' or 'female' in some letter case
FemaleLabels == {Str_f, Str_F, Str_female, Str_Female, Str_FEMALE}

\* ((140 - age) * weight) / (72 * scr) as one fraction; null when age or weight is
CrclFormula(age, weight, scr) ==
    IF isna(age) \/ isna(weight) THEN NaN
    ELSE Num((140 * age[1][2] - age[1][1]) * weight[1][1] * scr[1][2],
             72 * scr[1][1] * age[1][2] * weight[1][2])

\* 0.85 x as one fraction
TimesPoint85(x) == IF isna(x) THEN NaN ELSE Num(17 * x[1][1], 20 * x[1][2])

\* C10: the result is ((140 - age) * weight) / (72 * scr), times 0.85 exactly
\* when the label is 'f' or 'female' in any letter case; scr is 1.0 when not
\* supplied; (40, 70, male) gives 7000/72 = 97.222... and (40, 70, female)
\* gives 0.85 * 7000/72 = 82.639 to three decimals.
C10_CockcroftGault ==
    Returned(CrclFunctions) =>
        /\ DOMAIN result = DOMAIN call.rows
        /\ \A i \in DOMAIN call.rows :
              LET r == call.rows[i]
                  scr == IF call.scr = <<>> THEN Int2Num(1) ELSE call.scr[1]
                  base == CrclFormula(r.age, r.weight, scr)
                  female == notna(r.sex) /\ r.sex[1] \in FemaleLabels
              IN  /\ result[i] = IF female THEN TimesPoint85(base) ELSE base
                  /\ (call.scr = <<>> /\ r.age = Int2Num(40) /\ r.weight = Int2Num(70)) =>
                        IF female
                        THEN /\ result[i] = Num(85 * 7000, 100 * 72)
                             /\ FLess(Num(82638, 1000), result[i])
                             /\ FLess(result[i], Num(82640, 1000))
                        ELSE /\ result[i] = Num(7000, 72)
                             /\ FLess(Num(97222, 1000), result[i])
                             /\ FLess(result[i], Num(97223, 1000))

\* C10 witness: calc_creatinine_clearance without scr on the Series
\* (40, 70, 'male'), (40, 70, 'Female') returns 875/9 and 2975/36.
C10_Witness ==
    /\ Returned({"calc_creatinine_clearance"})
    /\ call.scr = <<>>
    /\ Len(call.rows) = 2
    /\ call.rows[1] = [age |-> Int2Num(40), weight |-> Int2Num(70), sex |-> <<Str_male>>]
    /\ call.rows[2] = [age |-> Int2Num(40), weight |-> Int2Num(70), sex |-> <<Str_Female>>]
    /\ result[1] = Num(875, 9)
    /\ result[2] = Num(2975, 36)

(***************************************************************************)
(* C11                                                                     *)
(***************************************************************************)
\* base + 2.3 * (h/2.54 - 60) as one fraction, base = b/2, for a finite h
IbwFormula(b, h) ==
    Num(b * 1270 * h[1][2] + 2300 * h[1][1] - 350520 * h[1][2], 2540 * h[1][2])

\* C11: the ideal body weight is null when the height is missing; otherwise it
\* is 45.5 + 2.3*(height/2.54 - 60) for a label that is 'f' or 'female' in any
\* letter case and 50 + 2.3*(height/2.54 - 60) for every other label.
C11_IdealBodyWeight ==
    Returned(IbwFunctions) =>
        /\ DOMAIN result = DOMAIN call.rows
        /\ \A i \in DOMAIN call.rows :
              LET h == call.rows[i].height
                  x == call.rows[i].sex
              IN  /\ isna(h) => result[i] = NaN
                  /\ (notna(h) /\ notna(x)) =>
                        result[i] = IF x[1] \in FemaleLabels THEN IbwFormula(91, h)
                                                             ELSE IbwFormula(100, h)

\* C11 witness: the saved copy on (167.5, 'FEMALE'), (missing, 'male') returns
\* 45.5 + 2.3*(167.5/2.54 - 60) = 15030/254 and null.
C11_Witness ==
    /\ Returned({"pk_calculations.calc_ideal_body_weight"})
    /\ Len(call.rows) = 2
    /\ call.rows[1] = [height |-> Num(335, 2), sex |-> <<Str_FEMALE>>]
    /\ call.rows[2] = [height |-> NaN, sex |-> <<Str_male>>]
    /\ result[1] = FAdd(Num(455, 10), FMul(Num(23, 10), FSub(Num(33500, 508), Int2Num(60))))
    /\ result[2] = NaN

(***************************************************************************)
(* C12                                                                     *)
(***************************************************************************)
\* lo/10 <= x < hi/10
Within(x, lo, hi) == notna(x) /\ ~FLess(x, Num(lo, 10)) /\ FLess(x, Num(hi, 10))

IbwOf180(label) ==
    {result[i] : i \in {j \in DOMAIN call.rows :
                          call.rows[j] = [height |-> Int2Num(180), sex |-> <<label>>]}}

\* C12 as stated: ideal_body_weight(180, 'male') is 50 + 2.3*((180/2.54) - 60),
\* approximately 114.9 kg, and ideal_body_weight(180, 'female') is approximately
\* 110.4 kg.
C12_ReferenceValuesStated ==
    Returned(IbwFunctions) =>
        /\ \A v \in IbwOf180(Str_male) :
              v = IbwFormula(100, Int2Num(180)) /\ Within(v, 1148, 1150)
        /\ \A v \in IbwOf180(Str_female) : Within(v, 1103, 1105)

\* C12 as amended: ideal_body_weight(180, 'male') is 50 + 2.3*((180/2.54) - 60)
\* = 9524/127, approximately 75.0 kg, and ideal_body_weight(180, 'female') is
\* 45.5 + 2.3*((180/2.54) - 60) = 17905/254, approximately 70.5 kg.
C12_ReferenceValues ==
    Returned(IbwFunctions) =>
        /\ \A v \in IbwOf180(Str_male) :
              /\ v = IbwFormula(100, Int2Num(180))
              /\ v = Num(9524, 127)
              /\ Within(v, 749, 751)
        /\ \A v \in IbwOf180(Str_female) :
              /\ v = Num(17905, 254)
              /\ Within(v, 704, 706)

\* C12 witness: calc_ideal_body_weight on (180, 'male'), (180, 'female').
C12_Witness ==
    /\ Returned({"calc_ideal_body_weight"})
    /\ Len(call.rows) = 2
    /\ call.rows[1] = [height |-> Int2Num(180), sex |-> <<Str_male>>]
    /\ call.rows[2] = [height |-> Int2Num(180), sex |-> <<Str_female>>]
    /\ result = <<Num(9524, 127), Num(17905, 254)>>

(***************************************************************************)
(* C13                                                                     *)
(***************************************************************************)
\* the pairs of an upper-case letter and its lower-case letter
CasePairs == {<<"A", "a">>, <<"E", "e">>, <<"F", "f">>, <<"H", "h">>, <<"K", "k">>,
              <<"L", "l">>, <<"M", "m">>, <<"N", "n">>, <<"O", "o">>, <<"R", "r">>,
              <<"S", "s">>, <<"T", "t">>, <<"U", "u">>, <<"Y", "y">>}

SameLetter(a, b) == a = b \/ <<a, b>> \in CasePairs \/ <<b, a>> \in CasePairs

EqualsIgnoringCase(s, t) == Len(s) = Len(t) /\ \A k \in DOMAIN s : SameLetter(s[k], t[k])

\* C13: the result is 1 when the value is present and equals a positive value
\* ignoring the case of both, 0 when it is present and matches none, and null
\* exactly when the value is missing.
C13_EncodeBinaryThreeValued ==
    Returned(EncodeFunctions) =>
        /\ DOMAIN result = DOMAIN call.rows
        /\ \A i \in DOMAIN call.rows :
              LET v == call.rows[i].value
                  pos == call.positive_values
              IN  /\ result[i] \in {Int2Num(1), Zero, NaN}
                  /\ result[i] = NaN <=> isna(v)
                  /\ result[i] = Int2Num(1) <=>
                        /\ notna(v)
                        /\ \E k \in DOMAIN pos : EqualsIgnoringCase(v[1], pos[k])

\* C13 witness: encode_binary(['y', missing], ['yes', 'true', 'Y']) is [1, null].
C13_Witness ==
    /\ Returned({"encode_binary"})
    /\ call.positive_values = oc_positive
    /\ Len(call.rows) = 2
    /\ call.rows[1].value = <<Str_y>>
    /\ call.rows[2].value = NaN
    /\ result = <<Int2Num(1), NaN>>

(***************************************************************************)
(* C14                                                                     *)
(***************************************************************************)
\* lo/10 <= x < hi/10 on the numerator and denominator of a present x
InBin(x, lo, hi) == lo * x[1][2] <= 10 * x[1][1] /\ 10 * x[1][1] < hi * x[1][2]

\* C14: pediatric for 0 <= age < 18, young_adult for 18 <= age < 40, middle_aged
\* for 40 <= age < 65, elderly for 65 <= age < 100, null for age < 0, for
\* age >= 100 and for a missing age.
C14_AgeCategoryBins ==
    Returned(AgeFunctions) =>
        /\ DOMAIN result = DOMAIN call.rows
        /\ \A i \in DOMAIN call.rows :
              LET a == call.rows[i].value
              IN  result[i] =
                    IF isna(a) THEN NaN
                    ELSE IF InBin(a, 0, 180) THEN <<"pediatric">>
                    ELSE IF InBin(a, 180, 400) THEN <<"young_adult">>
                    ELSE IF InBin(a, 400, 650) THEN <<"middle_aged">>
                    ELSE IF InBin(a, 650, 1000) THEN <<"elderly">>
                    ELSE NaN

\* C14 witness: the age Series (18, 100) of 03 gives young_adult and null.
C14_Witness ==
    /\ Returned({"age_category"})
    /\ Len(call.rows) = 2
    /\ call.rows[1].value = Int2Num(18)
    /\ call.rows[2].value = Int2Num(100)
    /\ result = << <<"young_adult">>, NaN >>

(***************************************************************************)
(* C15                                                                     *)
(***************************************************************************)
\* C15: underweight for 0 <= bmi < 18.5, normal for 18.5 <= bmi < 25, overweight
\* for 25 <= bmi < 30, obese for 30 <= bmi < 100, null for a bmi outside
\* [0, 100) and for a missing bmi.
C15_BmiCategoryBins ==
    Returned(BmiCatFunctions) =>
        /\ DOMAIN result = DOMAIN call.rows
        /\ \A i \in DOMAIN call.rows :
              LET b == call.rows[i].value
              IN  result[i] =
                    IF isna(b) THEN NaN
                    ELSE IF InBin(b, 0, 185) THEN <<"underweight">>
                    ELSE IF InBin(b, 185, 250) THEN <<"normal">>
                    ELSE IF InBin(b, 250, 300) THEN <<"overweight">>
                    ELSE IF InBin(b, 300, 1000) THEN <<"obese">>
                    ELSE NaN

\* C15 witness: the bmi Series (18.5, 30) of 03b gives normal and obese.
C15_Witness ==
    /\ Returned({"03b.bmi_category"})
    /\ Len(call.rows) = 2
    /\ call.rows[1].value = Num(185, 10)
    /\ call.rows[2].value = Int2Num(30)
    /\ result = << <<"normal">>, <<"obese">> >>

(***************************************************************************)
(* C21                                                                     *)
(***************************************************************************)
\* the elements a female check classifies as female: the check against
\* ['f', 'female'] and the check against ['f', 'female', 'F'], both after
\* str.lower(), and the elements that encode_binary(sex, ['F', 'female', 'f'])
\* gives 1
FemaleByTwo(sex) == str_lower_isin(sex, {Str_f, Str_female})

FemaleByThree(sex) == str_lower_isin(sex, {Str_f, Str_female, Str_F})

FemaleByEncoding(sex) ==
    {i \in DOMAIN sex : encode_binary(sex, female_positive)[i] = Int2Num(1)}

SameFemaleRows(sex) ==
    /\ FemaleByTwo(sex) = FemaleByThree(sex)
    /\ FemaleByTwo(sex) = FemaleByEncoding(sex)
    /\ \A i \in DOMAIN sex : isna(sex[i]) => i \notin FemaleByThree(sex)

\* C21: for every sex label (any letter case, or missing) the check against
\* ['f', 'female'] and the check against ['f', 'female', 'F'] after lower-casing
\* classify it identically, so calc_creatinine_clearance and
\* calc_ideal_body_weight of the notebook, their copies in pk_calculations.py
\* and the is_female encoding agree on which rows are female: the notebook
\* function and its copy return the same Series, and the encoding is 1 on
\* exactly the rows the checks classify as female.
C21_FemaleVariantsEquivalent ==
    /\ Returned(CrclFunctions) =>
          LET sex == Column(call.rows, "sex")
              age == Column(call.rows, "age")
              weight == Column(call.rows, "weight")
          IN  /\ SameFemaleRows(sex)
              /\ calc_creatinine_clearance(age, weight, sex, ScrOf(call))
                    = pk_calc_creatinine_clearance(age, weight, sex, ScrOf(call))
              /\ call.fn # "calc_crcl" =>
                    result = calc_creatinine_clearance(age, weight, sex, ScrOf(call))
    /\ Returned(IbwFunctions) =>
          LET sex == Column(call.rows, "sex")
              height == Column(call.rows, "height")
          IN  /\ SameFemaleRows(sex)
              /\ calc_ideal_body_weight(height, sex) = pk_calc_ideal_body_weight(height, sex)
              /\ result = calc_ideal_body_weight(height, sex)
    /\ (Returned(EncodeFunctions) /\ call \in FemaleEncodeCalls) =>
          LET sex == Column(call.rows, "value")
          IN  /\ SameFemaleRows(sex)
              /\ {i \in DOMAIN result : result[i] = Int2Num(1)} = FemaleByTwo(sex)
              /\ {i \in DOMAIN result : isna(result[i])} = {i \in DOMAIN sex : isna(sex[i])}

\* C21 witness: pk_calculations.calc_creatinine_clearance (whose list is
\* ['f', 'female']) on the labels 'F' and 'FEMALE' at age 40 and 70 kg returns
\* the corrected 2975/36 for both, as the notebook's function does.
C21_Witness ==
    /\ Returned({"pk_calculations.calc_creatinine_clearance"})
    /\ call.scr = <<>>
    /\ Len(call.rows) = 2
    /\ call.rows[1] = [age |-> Int2Num(40), weight |-> Int2Num(70), sex |-> <<Str_F>>]
    /\ call.rows[2] = [age |-> Int2Num(40), weight |-> Int2Num(70), sex |-> <<Str_FEMALE>>]
    /\ result = <<Num(2975, 36), Num(2975, 36)>>

(***************************************************************************)
(* Dataframe operations of the enrichment steps.                           *)
(***************************************************************************)
HasColumn(df, c) == c \in Range(df.columns)

\* df[c] = np.nan for a new column c: appended after the existing columns
AddNaNColumn(df, c) ==
    [columns |-> Append(df.columns, c),
     rows |-> [i \in DOMAIN df.rows |->
                  [x \in DOMAIN df.rows[i] \cup {c} |->
                      IF x = c THEN NaN ELSE df.rows[i][x]]]]

\* df.loc[mask, c]: the Series of column c restricted to the index labels of mask
Loc(df, mask, c) == [i \in mask |-> df.rows[i][c]]

\* df.loc[mask, c] = series: assignment aligned on the index labels
SetLoc(df, mask, c, series) ==
    [df EXCEPT !.rows = [i \in DOMAIN df.rows |->
        IF i \in mask THEN [df.rows[i] EXCEPT ![c] = series[i]] ELSE df.rows[i]]]

\* the rows with weight and height present, whatever their bmi
bmi_mask_overwrite(df) ==
    {i \in DOMAIN df.rows : notna(df.rows[i]["weight"]) /\ notna(df.rows[i]["height"])}

\* every row with weight and height as soon as some row lacks its bmi
missing_bmi_any(df) ==
    IF \E i \in DOMAIN df.rows : isna(df.rows[i]["bmi"])
    THEN {i \in DOMAIN df.rows : notna(df.rows[i]["weight"]) /\ notna(df.rows[i]["height"])}
    ELSE {}

\* no row is filled
missing_bmi_none(df) == {}

\* df['bmi'].isna() & df['weight'].notna() & df['height'].notna()
missing_bmi(df) ==
    {i \in DOMAIN df.rows :
        /\ isna(df.rows[i]["bmi"])
        /\ notna(df.rows[i]["weight"])
        /\ notna(df.rows[i]["height"])}

(***************************************************************************)
(* 03_feature_engineering.py 3a (groups) and cell 4 "BMI" (individuals):   *)
(* a missing bmi column is created, and where height exists the missing    *)
(* bmi cells are filled from weight and height with calc_bmi.  Reading an  *)
(* absent weight column raises KeyError.                                   *)
(***************************************************************************)
fill_bmi(df) ==
    LET d1 == IF ~HasColumn(df, "bmi") THEN AddNaNColumn(df, "bmi") ELSE df
    IN  IF ~HasColumn(d1, "height") THEN [ok |-> TRUE, df |-> d1]
        ELSE IF ~HasColumn(d1, "weight") THEN [ok |-> FALSE, df |-> d1]
        ELSE LET m == missing_bmi(d1)
             IN  [ok |-> TRUE,
                  df |-> SetLoc(d1, m, "bmi",
                                calc_bmi(Loc(d1, m, "weight"), Loc(d1, m, "height")))]

(***************************************************************************)
(* 03b_save_analysis.py "BMI fill": no bmi column is created (reading an   *)
(* absent bmi or weight column raises KeyError) and the quotient is taken  *)
(* without calc_bmi's positivity mask.                                     *)
(***************************************************************************)
fill_bmi_03b(df) ==
    IF ~HasColumn(df, "height") THEN [ok |-> TRUE, df |-> df]
    ELSE IF ~HasColumn(df, "bmi") \/ ~HasColumn(df, "weight") THEN [ok |-> FALSE, df |-> df]
    ELSE LET m == missing_bmi(df)
             h == [i \in m |-> FDiv(df.rows[i]["height"], Int2Num(100))]
         IN  [ok |-> TRUE,
              df |-> SetLoc(df, m, "bmi",
                            [i \in m |-> FDiv(df.rows[i]["weight"], FMul(h[i], h[i]))])]

(***************************************************************************)
(* The other enrichment steps.  Each takes the table and returns the table *)
(* after the step and ok = FALSE when the step raised KeyError on a column *)
(* that is not there.                                                      *)
(***************************************************************************)
\* df[c]: the whole column as a Series
Col(df, c) == [i \in DOMAIN df.rows |-> df.rows[i][c]]

\* df[c] = series: a new column is appended, an existing one replaced
SetColumn(df, c, series) ==
    [columns |-> IF HasColumn(df, c) THEN df.columns ELSE Append(df.columns, c),
     rows |-> [i \in DOMAIN df.rows |->
                  [x \in DOMAIN df.rows[i] \cup {c} |->
                      IF x = c THEN series[i] ELSE df.rows[i][x]]]]

\* the missing elements replaced by 1
fillna_one(series, value) ==
    [i \in DOMAIN series |-> IF isna(series[i]) THEN Int2Num(1) ELSE series[i]]

fillna(series, value) ==
    [i \in DOMAIN series |-> IF isna(series[i]) THEN value ELSE series[i]]

\* 0.007184 * w**0.425 * h**0.725 for w > 0 and h > 0: a positive real that
\* the rationals do not hold, kept as the term DuBois(w, h)
dubois(w, h) == << <<"DuBois", w[1], h[1]>> >>

\* series == 0
eq_zero(series) == {i \in DOMAIN series : series[i] = Zero}

calc_bsa_dubois(weight_kg, height_cm) ==
    LET mask == {i \in DOMAIN weight_kg :
                    FGreater(weight_kg[i], Zero) /\ FGreater(height_cm[i], Zero)}
    IN  [i \in DOMAIN weight_kg |->
            IF i \in mask THEN dubois(weight_kg[i], height_cm[i]) ELSE NaN]

\* 03b_save_analysis.py: calc_bsa
calc_bsa(w, h) ==
    LET m == {i \in DOMAIN w : FGreater(w[i], Zero) /\ FGreater(h[i], Zero)}
    IN  [i \in DOMAIN w |-> IF i \in m THEN dubois(w[i], h[i]) ELSE NaN]

\* 03, 3b and cell 4 "BSA"
step_bsa(df) ==
    IF ~HasColumn(df, "height") THEN [ok |-> TRUE, df |-> df]
    ELSE IF ~HasColumn(df, "weight") THEN [ok |-> FALSE, df |-> df]
    ELSE LET d1 == SetColumn(df, "bsa",
                             calc_bsa_dubois(fillna(Col(df, "weight"), Zero),
                                             fillna(Col(df, "height"), Zero)))
             z == eq_zero(Col(d1, "bsa"))
         IN  [ok |-> TRUE, df |-> SetLoc(d1, z, "bsa", [i \in z |-> NaN])]

\* 03b: BSA
step_bsa_03b(df) ==
    IF ~HasColumn(df, "height") THEN [ok |-> TRUE, df |-> df]
    ELSE IF ~HasColumn(df, "weight") THEN [ok |-> FALSE, df |-> df]
    ELSE LET d1 == SetColumn(df, "bsa",
                             calc_bsa(fillna(Col(df, "weight"), Zero),
                                      fillna(Col(df, "height"), Zero)))
             z == eq_zero(Col(d1, "bsa"))
         IN  [ok |-> TRUE, df |-> SetLoc(d1, z, "bsa", [i \in z |-> NaN])]

\* the mask of line 137 alone, without the sex label
has_crcl_unlabelled(df) ==
    {i \in DOMAIN df.rows : notna(df.rows[i]["age"]) /\ notna(df.rows[i]["weight"])}

\* the mask narrowed to the rows with a positive weight
has_crcl_positive(df) ==
    {i \in DOMAIN df.rows :
        /\ notna(df.rows[i]["age"]) /\ notna(df.rows[i]["weight"])
        /\ notna(df.rows[i]["sex"]) /\ FGreater(df.rows[i]["weight"], Zero)}

\* df['age'].notna() & df['weight'].notna() & df['sex'].notna()
has_crcl(df) ==
    {i \in DOMAIN df.rows :
        notna(df.rows[i]["age"]) /\ notna(df.rows[i]["weight"]) /\ notna(df.rows[i]["sex"])}

\* 03, 3c: the age and weight columns are read before the test for a sex column
step_crcl(df) ==
    IF ~HasColumn(df, "age") \/ ~HasColumn(df, "weight") THEN [ok |-> FALSE, df |-> df]
    ELSE IF ~HasColumn(df, "sex") THEN [ok |-> TRUE, df |-> df]
    ELSE LET m == has_crcl(df)
             d1 == SetColumn(df, "est_crcl", [i \in DOMAIN df.rows |-> NaN])
         IN  [ok |-> TRUE,
              df |-> SetLoc(d1, m, "est_crcl",
                            calc_creatinine_clearance(Loc(d1, m, "age"), Loc(d1, m, "weight"),
                                                      Loc(d1, m, "sex"), scr_default))]

\* 03, cell 4 "CrCl": the age and weight columns are read under the test
step_crcl_indiv(df) ==
    IF ~HasColumn(df, "sex") THEN [ok |-> TRUE, df |-> df]
    ELSE IF ~HasColumn(df, "age") \/ ~HasColumn(df, "weight") THEN [ok |-> FALSE, df |-> df]
    ELSE LET m == has_crcl(df)
             d1 == SetColumn(df, "est_crcl", [i \in DOMAIN df.rows |-> NaN])
         IN  [ok |-> TRUE,
              df |-> SetLoc(d1, m, "est_crcl",
                            calc_creatinine_clearance(Loc(d1, m, "age"), Loc(d1, m, "weight"),
                                                      Loc(d1, m, "sex"), scr_default))]

\* 03b: CrCl
step_crcl_03b(df) ==
    IF ~HasColumn(df, "sex") THEN [ok |-> TRUE, df |-> df]
    ELSE IF ~HasColumn(df, "age") \/ ~HasColumn(df, "weight") THEN [ok |-> FALSE, df |-> df]
    ELSE LET m == has_crcl(df)
             d1 == SetColumn(df, "est_crcl", [i \in DOMAIN df.rows |-> NaN])
         IN  [ok |-> TRUE,
              df |-> SetLoc(d1, m, "est_crcl",
                            calc_crcl(Loc(d1, m, "age"), Loc(d1, m, "weight"),
                                      Loc(d1, m, "sex"), scr_default))]

\* 03, 3d
step_ibw(df) ==
    IF ~(HasColumn(df, "height") /\ HasColumn(df, "sex")) THEN [ok |-> TRUE, df |-> df]
    ELSE LET has_ibw == {i \in DOMAIN df.rows :
                            notna(df.rows[i]["height"]) /\ notna(df.rows[i]["sex"])}
             d1 == SetColumn(df, "ibw", [i \in DOMAIN df.rows |-> NaN])
         IN  [ok |-> TRUE,
              df |-> SetLoc(d1, has_ibw, "ibw",
                            calc_ideal_body_weight(Loc(d1, has_ibw, "height"),
                                                   Loc(d1, has_ibw, "sex")))]

\* 03b: IBW, written out on the whole columns
step_ibw_03b(df) ==
    IF ~(HasColumn(df, "height") /\ HasColumn(df, "sex")) THEN [ok |-> TRUE, df |-> df]
    ELSE LET h_in == [i \in DOMAIN df.rows |-> FDiv(df.rows[i]["height"], Num(254, 100))]
             d1 == SetColumn(df, "ibw", [i \in DOMAIN df.rows |-> NaN])
             female == str_lower_isin(Col(df, "sex"), {Str_f, Str_female})
             m_m == {i \in DOMAIN df.rows \ female : notna(df.rows[i]["height"])}
             m_f == {i \in female : notna(df.rows[i]["height"])}
             d2 == SetLoc(d1, m_m, "ibw", [i \in m_m |-> devine(Int2Num(50), h_in[i])])
         IN  [ok |-> TRUE,
              df |-> SetLoc(d2, m_f, "ibw", [i \in m_f |-> devine(Num(455, 10), h_in[i])])]

\* if c in df.columns: df[derived] = encode_binary(df[c], positive_values)
encode_column(df, c, derived, positive_values) ==
    IF HasColumn(df, c) THEN SetColumn(df, derived, encode_binary(Col(df, c), positive_values))
    ELSE df

encode_column_03b(df, c, derived, pos) ==
    IF HasColumn(df, c) THEN SetColumn(df, derived, encode_bin(Col(df, c), pos))
    ELSE df

\* 03, 3e
step_encodings(df) ==
    LET d1 == encode_column(df, "smoking", "is_smoker", smoking_positive)
        d2 == encode_column(d1, "healthy", "is_healthy", healthy_positive)
        d3 == encode_column(d2, "oral contraceptives", "on_oc", oc_positive)
    IN  [ok |-> TRUE, df |-> encode_column(d3, "sex", "is_female", female_positive)]

\* the individuals given the healthy encoding of the groups as well
step_encodings_indiv_healthy(df) ==
    LET d1 == encode_column(df, "sex", "is_female", female_positive)
        d2 == encode_column(d1, "smoking", "is_smoker", smoking_positive)
    IN  [ok |-> TRUE, df |-> encode_column(d2, "healthy", "is_healthy", healthy_positive)]

\* 03, cell 4 "Binary encodings"
step_encodings_indiv(df) ==
    LET d1 == encode_column(df, "sex", "is_female", female_positive)
    IN  [ok |-> TRUE, df |-> encode_column(d1, "smoking", "is_smoker", smoking_positive)]

\* 03b: Binary encodings
step_encodings_03b(df) ==
    LET d1 == encode_column_03b(df, "smoking", "is_smoker", smoking_positive)
        d2 == encode_column_03b(d1, "healthy", "is_healthy", healthy_positive)
        d3 == encode_column_03b(d2, "oral contraceptives", "on_oc", oc_positive)
    IN  [ok |-> TRUE, df |-> encode_column_03b(d3, "sex", "is_female", female_positive)]

\* 03, 3f and cell 4 "Age + BMI categories": the age column is read untested
step_age_category(df) ==
    IF ~HasColumn(df, "age") THEN [ok |-> FALSE, df |-> df]
    ELSE [ok |-> TRUE, df |-> SetColumn(df, "age_category", age_category(Col(df, "age")))]

\* 03, 3g
step_bmi_category(df) ==
    IF ~HasColumn(df, "bmi") THEN [ok |-> TRUE, df |-> df]
    ELSE [ok |-> TRUE, df |-> SetColumn(df, "bmi_category", bmi_category(Col(df, "bmi")))]

\* 03b: the two categories
step_age_category_03b(df) ==
    IF ~HasColumn(df, "age") THEN [ok |-> FALSE, df |-> df]
    ELSE [ok |-> TRUE, df |-> SetColumn(df, "age_category", age_category_03b(Col(df, "age")))]

step_bmi_category_03b(df) ==
    IF ~HasColumn(df, "bmi") THEN [ok |-> TRUE, df |-> df]
    ELSE [ok |-> TRUE, df |-> SetColumn(df, "bmi_category", bmi_category_03b(Col(df, "bmi")))]

(***************************************************************************)
(* Inputs of the enrichment: groups_wide.csv and individuals_wide.csv as   *)
(* 02_eda.py writes them.  A table has the id columns and a pattern of     *)
(* measurement columns; one row is drawn freely and the other rows are a   *)
(* fixed complete row.  As in every output of the pivot, each measurement  *)
(* column has a value in some row and each row has a value in some column. *)
(***************************************************************************)
MaxRows == 2

FeColumns == <<"age", "bmi", "height", "weight",
               "healthy", "oral contraceptives", "sex", "smoking">>

\* individuals have no 'oral contraceptives' measurement type
IndivFeColumns == SelectSeq(FeColumns, LAMBDA c : c # "oral contraceptives")

\* every column present, or every column but one
ColumnPatterns(cols) == {Range(cols)} \cup {Range(cols) \ {c} : c \in Range(cols)}

Str_no == <<"n", "o">>

\* a row of the eight measurement columns
FeRow(a, b, h, w, x, s, y, o) ==
    [c \in Range(FeColumns) |->
        CASE c = "age" -> a [] c = "bmi" -> b [] c = "height" -> h [] c = "weight" -> w
          [] c = "sex" -> x [] c = "smoking" -> s [] c = "healthy" -> y [] OTHER -> o]

\* the free row: every combination of the numbers and the sex label with fixed
\* flags, and every combination of the flags with fixed numbers
FreeRows ==
    {FeRow(a, b, h, w, x, <<Str_Yes>>, NaN, NaN) :
        a \in {NaN, Int2Num(40)}, b \in {NaN, Int2Num(22)},
        h \in {NaN, Zero, Int2Num(175)}, w \in {NaN, Zero, Int2Num(70)},
        x \in {NaN, <<Str_F>>, <<Str_male>>}}
      \cup
    {FeRow(Int2Num(70), NaN, Int2Num(175), Int2Num(70), <<Str_Female>>, s, y, o) :
        s \in {NaN, <<Str_smoker>>, <<Str_No>>}, y \in {NaN, <<Str_Y>>},
        o \in {NaN, <<Str_TRUE>>}}

RowValues(P) == {[c \in P |-> r[c]] : r \in FreeRows}

CompleteRow(P) ==
    [c \in P |-> CASE c = "age" -> Int2Num(30) [] c = "bmi" -> Int2Num(24)
                   [] c = "height" -> Int2Num(180) [] c = "weight" -> Int2Num(81)
                   [] c = "sex" -> <<Str_f>> [] c = "smoking" -> <<Str_no>>
                   [] c = "healthy" -> <<Str_yes>> [] OTHER -> <<Str_y>>]

GroupNames == <<"g1", "g2", "g3", "g4">>

IndivNames == <<"i1", "i2", "i3", "i4">>

WithKey(key, vals) ==
    [c \in DOMAIN key \cup DOMAIN vals |-> IF c \in DOMAIN key THEN key[c] ELSE vals[c]]

GroupRowKey(i) == GroupKey(i, <<GroupNames[i]>>)

IndivRowKey(i) == IndivKey(i, <<IndivNames[i]>>)

GroupRowKeys == [i \in DOMAIN GroupNames |-> GroupRowKey(i)]

IndivRowKeys == [i \in DOMAIN IndivNames |-> IndivRowKey(i)]

\* the tables with columns index + P: n rows, the free row at position j
WideTables(index, P, keys) ==
    LET cols == SelectSeq(FeColumns, LAMBDA c : c \in P)
        Build(n, j, v) ==
            [columns |-> index \o cols,
             rows |-> [i \in 1..n |->
                         WithKey(keys[i], IF i = j THEN v ELSE CompleteRow(P))]]
    IN  {t \in {Build(n, j, v) : n \in 1..MaxRows, j \in 1..MaxRows, v \in RowValues(P)} :
            /\ \A i \in DOMAIN t.rows : \E c \in P : notna(t.rows[i][c])
            /\ \A c \in P : \E i \in DOMAIN t.rows : notna(t.rows[i][c])}

GroupsWideTables ==
    UNION {WideTables(group_index, P, GroupRowKeys) : P \in ColumnPatterns(FeColumns)}

IndivWideTables ==
    UNION {WideTables(indiv_index, P, IndivRowKeys) : P \in ColumnPatterns(IndivFeColumns)}

\* the table of the other kind while one kind is explored: one complete row
DefaultWide(index, cols, keys) ==
    [columns |-> index \o cols,
     rows |-> <<WithKey(keys[1], CompleteRow(Range(cols)))>>]

(***************************************************************************)
(* 03_feature_engineering.py and 03b_save_analysis.py as a state machine,  *)
(* one action per enrichment step, pc naming the step to run next.  A step *)
(* that raises ends the script (pc = "KeyError", "03b_KeyError"); 03b is a *)
(* script of its own and runs on the same groups_wide.csv whatever became  *)
(* of 03.                                                                  *)
(***************************************************************************)
InitFE ==
    /\ pc = "fe_groups_bmi"
    /\ \/ /\ df_groups_wide \in GroupsWideTables
          /\ df_indiv_wide = DefaultWide(indiv_index, IndivFeColumns, IndivRowKeys)
       \/ /\ df_groups_wide = DefaultWide(group_index, FeColumns, GroupRowKeys)
          /\ df_indiv_wide \in IndivWideTables
    /\ df_g = df_groups_wide
    /\ df_i = df_indiv_wide
    /\ df_g_03b = df_groups_wide
    /\ df_groups = <<>> /\ df_indiv = <<>>
    /\ call = <<>> /\ result = <<>>
    /\ PagesIdle /\ JoinIdle

\* 03, 3a: BMI of the groups
FeGroupsBmi ==
    /\ pc = "fe_groups_bmi"
    /\ LET r == fill_bmi(df_g)
       IN  /\ df_g' = r.df
           /\ pc' = IF r.ok THEN "fe_groups_bsa" ELSE "KeyError"
    /\ UNCHANGED <<longVars, pageVars, joinVars, wideVars, df_i, df_g_03b, callVars>>

\* 03, 3b
FeGroupsBsa ==
    /\ pc = "fe_groups_bsa"
    /\ LET r == step_bsa(df_g)
       IN  /\ df_g' = r.df
           /\ pc' = IF r.ok THEN "fe_groups_crcl" ELSE "KeyError"
    /\ UNCHANGED <<longVars, pageVars, joinVars, wideVars, df_i, df_g_03b, callVars>>

\* 03, 3c
FeGroupsCrcl ==
    /\ pc = "fe_groups_crcl"
    /\ LET r == step_crcl(df_g)
       IN  /\ df_g' = r.df
           /\ pc' = IF r.ok THEN "fe_groups_ibw" ELSE "KeyError"
    /\ UNCHANGED <<longVars, pageVars, joinVars, wideVars, df_i, df_g_03b, callVars>>

\* 03, 3d
FeGroupsIbw ==
    /\ pc = "fe_groups_ibw"
    /\ LET r == step_ibw(df_g)
       IN  /\ df_g' = r.df
           /\ pc' = IF r.ok THEN "fe_groups_encodings" ELSE "KeyError"
    /\ UNCHANGED <<longVars, pageVars, joinVars, wideVars, df_i, df_g_03b, callVars>>

\* 03, 3e
FeGroupsEncodings ==
    /\ pc = "fe_groups_encodings"
    /\ LET r == step_encodings(df_g)
       IN  /\ df_g' = r.df
           /\ pc' = IF r.ok THEN "fe_groups_age_category" ELSE "KeyError"
    /\ UNCHANGED <<longVars, pageVars, joinVars, wideVars, df_i, df_g_03b, callVars>>

\* 03, 3f
FeGroupsAgeCategory ==
    /\ pc = "fe_groups_age_category"
    /\ LET r == step_age_category(df_g)
       IN  /\ df_g' = r.df
           /\ pc' = IF r.ok THEN "fe_groups_bmi_category" ELSE "KeyError"
    /\ UNCHANGED <<longVars, pageVars, joinVars, wideVars, df_i, df_g_03b, callVars>>

\* 03, 3g
FeGroupsBmiCategory ==
    /\ pc = "fe_groups_bmi_category"
    /\ LET r == step_bmi_category(df_g)
       IN  /\ df_g' = r.df
           /\ pc' = IF r.ok THEN "fe_indiv_bmi" ELSE "KeyError"
    /\ UNCHANGED <<longVars, pageVars, joinVars, wideVars, df_i, df_g_03b, callVars>>

\* 03, cell 4: BMI of the individuals
FeIndivBmi ==
    /\ pc = "fe_indiv_bmi"
    /\ LET r == fill_bmi(df_i)
       IN  /\ df_i' = r.df
           /\ pc' = IF r.ok THEN "fe_indiv_bsa" ELSE "KeyError"
    /\ UNCHANGED <<longVars, pageVars, joinVars, wideVars, df_g, df_g_03b, callVars>>

FeIndivBsa ==
    /\ pc = "fe_indiv_bsa"
    /\ LET r == step_bsa(df_i)
       IN  /\ df_i' = r.df
           /\ pc' = IF r.ok THEN "fe_indiv_crcl" ELSE "KeyError"
    /\ UNCHANGED <<longVars, pageVars, joinVars, wideVars, df_g, df_g_03b, callVars>>

FeIndivCrcl ==
    /\ pc = "fe_indiv_crcl"
    /\ LET r == step_crcl_indiv(df_i)
       IN  /\ df_i' = r.df
           /\ pc' = IF r.ok THEN "fe_indiv_encodings" ELSE "KeyError"
    /\ UNCHANGED <<longVars, pageVars, joinVars, wideVars, df_g, df_g_03b, callVars>>

FeIndivEncodings ==
    /\ pc = "fe_indiv_encodings"
    /\ LET r == step_encodings_indiv(df_i)
       IN  /\ df_i' = r.df
           /\ pc' = IF r.ok THEN "fe_indiv_age_category" ELSE "KeyError"
    /\ UNCHANGED <<longVars, pageVars, joinVars, wideVars, df_g, df_g_03b, callVars>>

FeIndivAgeCategory ==
    /\ pc = "fe_indiv_age_category"
    /\ LET r == step_age_category(df_i)
       IN  /\ df_i' = r.df
           /\ pc' = IF r.ok THEN "fe_done" ELSE "KeyError"
    /\ UNCHANGED <<longVars, pageVars, joinVars, wideVars, df_g, df_g_03b, callVars>>

\* 03b is started after 03 has ended, normally or not
Start03b ==
    /\ pc \in {"fe_done", "KeyError"}
    /\ pc' = "03b_bmi"
    /\ UNCHANGED <<longVars, pageVars, joinVars, wideVars, feVars, callVars>>

\* 03b: BMI fill
SaveAnalysisBmi ==
    /\ pc = "03b_bmi"
    /\ LET r == fill_bmi_03b(df_g_03b)
       IN  /\ df_g_03b' = r.df
           /\ pc' = IF r.ok THEN "03b_bsa" ELSE "03b_KeyError"
    /\ UNCHANGED <<longVars, pageVars, joinVars, wideVars, df_g, df_i, callVars>>

SaveAnalysisBsa ==
    /\ pc = "03b_bsa"
    /\ LET r == step_bsa_03b(df_g_03b)
       IN  /\ df_g_03b' = r.df
           /\ pc' = IF r.ok THEN "03b_crcl" ELSE "03b_KeyError"
    /\ UNCHANGED <<longVars, pageVars, joinVars, wideVars, df_g, df_i, callVars>>

SaveAnalysisCrcl ==
    /\ pc = "03b_crcl"
    /\ LET r == step_crcl_03b(df_g_03b)
       IN  /\ df_g_03b' = r.df
           /\ pc' = IF r.ok THEN "03b_ibw" ELSE "03b_KeyError"
    /\ UNCHANGED <<longVars, pageVars, joinVars, wideVars, df_g, df_i, callVars>>

SaveAnalysisIbw ==
    /\ pc = "03b_ibw"
    /\ LET r == step_ibw_03b(df_g_03b)
       IN  /\ df_g_03b' = r.df
           /\ pc' = IF r.ok THEN "03b_encodings" ELSE "03b_KeyError"
    /\ UNCHANGED <<longVars, pageVars, joinVars, wideVars, df_g, df_i, callVars>>

SaveAnalysisEncodings ==
    /\ pc = "03b_encodings"
    /\ LET r == step_encodings_03b(df_g_03b)
       IN  /\ df_g_03b' = r.df
           /\ pc' = IF r.ok THEN "03b_age_category" ELSE "03b_KeyError"
    /\ UNCHANGED <<longVars, pageVars, joinVars, wideVars, df_g, df_i, callVars>>

SaveAnalysisAgeCategory ==
    /\ pc = "03b_age_category"
    /\ LET r == step_age_category_03b(df_g_03b)
       IN  /\ df_g_03b' = r.df
           /\ pc' = IF r.ok THEN "03b_bmi_category" ELSE "03b_KeyError"
    /\ UNCHANGED <<longVars, pageVars, joinVars, wideVars, df_g, df_i, callVars>>

SaveAnalysisBmiCategory ==
    /\ pc = "03b_bmi_category"
    /\ LET r == step_bmi_category_03b(df_g_03b)
       IN  /\ df_g_03b' = r.df
           /\ pc' = IF r.ok THEN "03b_done" ELSE "03b_KeyError"
    /\ UNCHANGED <<longVars, pageVars, joinVars, wideVars, df_g, df_i, callVars>>

NextFE ==
    \/ FeGroupsBmi
    \/ FeGroupsBsa
    \/ FeGroupsCrcl
    \/ FeGroupsIbw
    \/ FeGroupsEncodings
    \/ FeGroupsAgeCategory
    \/ FeGroupsBmiCategory
    \/ FeIndivBmi
    \/ FeIndivBsa
    \/ FeIndivCrcl
    \/ FeIndivEncodings
    \/ FeIndivAgeCategory
    \/ Start03b
    \/ SaveAnalysisBmi
    \/ SaveAnalysisBsa
    \/ SaveAnalysisCrcl
    \/ SaveAnalysisIbw
    \/ SaveAnalysisEncodings
    \/ SaveAnalysisAgeCategory
    \/ SaveAnalysisBmiCategory

\* the values of pc after the groups, the individuals and 03b have filled bmi
GroupsBmiDone ==
    {"fe_groups_bsa", "fe_groups_crcl", "fe_groups_ibw", "fe_groups_encodings",
     "fe_groups_age_category", "fe_groups_bmi_category", "fe_indiv_bmi", "fe_indiv_bsa",
     "fe_indiv_crcl", "fe_indiv_encodings", "fe_indiv_age_category", "fe_done"}

IndivBmiDone ==
    {"fe_indiv_bsa", "fe_indiv_crcl", "fe_indiv_encodings", "fe_indiv_age_category",
     "fe_done"}

SaveAnalysisBmiDone ==
    {"03b_bsa", "03b_crcl", "03b_ibw", "03b_encodings", "03b_age_category",
     "03b_bmi_category", "03b_done"}

SpecFE == InitFE /\ [][NextFE]_vars

(***************************************************************************)
(* C8                                                                      *)
(***************************************************************************)
\* the bmi of row i in the table as read: null when there is no bmi column
InputBmi(wide, i) == IF HasColumn(wide, "bmi") THEN wide.rows[i]["bmi"] ELSE NaN

Present(wide, i, c) == HasColumn(wide, c) /\ notna(wide.rows[i][c])

\* df is the table wide after some enrichment steps
BmiFallback(wide, df) ==
    /\ DOMAIN df.rows = DOMAIN wide.rows
    /\ \A i \in DOMAIN wide.rows :
          /\ KeyOf(df.rows[i], <<"study_sid", "study_name">>)
               = KeyOf(wide.rows[i], <<"study_sid", "study_name">>)
          /\ notna(InputBmi(wide, i)) =>
                HasColumn(df, "bmi") /\ df.rows[i]["bmi"] = InputBmi(wide, i)
          /\ (HasColumn(df, "bmi") /\ df.rows[i]["bmi"] # InputBmi(wide, i)) =>
                /\ isna(InputBmi(wide, i))
                /\ Present(wide, i, "weight")
                /\ Present(wide, i, "height")

\* where the fill has run: a null bmi with positive weight and height is the
\* bmi formula of the two
BmiFilled(wide, df) ==
    \A i \in DOMAIN wide.rows :
        (/\ isna(InputBmi(wide, i))
         /\ Present(wide, i, "weight") /\ IsPositive(wide.rows[i]["weight"])
         /\ Present(wide, i, "height") /\ IsPositive(wide.rows[i]["height"])) =>
            df.rows[i]["bmi"] = BmiFormula(wide.rows[i]["weight"], wide.rows[i]["height"])

\* C8: in the groups and individuals enrichment of 03 and in the re-run of 03b,
\* a row whose bmi is non-null in the wide table keeps exactly that value, and
\* a bmi cell changes only in a row whose bmi is null and whose weight and
\* height are both present, where it becomes the bmi formula's value.
C8_BmiNeverOverwritten ==
    /\ BmiFallback(df_groups_wide, df_g)
    /\ BmiFallback(df_indiv_wide, df_i)
    /\ BmiFallback(df_groups_wide, df_g_03b)
    /\ pc \in GroupsBmiDone => BmiFilled(df_groups_wide, df_g)
    /\ pc \in IndivBmiDone => BmiFilled(df_indiv_wide, df_i)
    /\ pc \in SaveAnalysisBmiDone => BmiFilled(df_groups_wide, df_g_03b)

\* C8 witness: after 3a, of two groups with weight and height, the one with
\* bmi 24 still has 24 and the one without bmi (70 kg, 175 cm) has 160/7.
C8_Witness ==
    /\ pc = "fe_groups_bsa"
    /\ Len(df_groups_wide.rows) = 2
    /\ HasColumn(df_groups_wide, "bmi")
    /\ \E i, j \in DOMAIN df_groups_wide.rows :
          /\ df_groups_wide.rows[i]["bmi"] = Int2Num(24)
          /\ Present(df_groups_wide, i, "weight") /\ Present(df_groups_wide, i, "height")
          /\ df_g.rows[i]["bmi"] = Int2Num(24)
          /\ df_groups_wide.rows[j]["bmi"] = NaN
          /\ df_groups_wide.rows[j]["weight"] = Int2Num(70)
          /\ df_groups_wide.rows[j]["height"] = Int2Num(175)
          /\ df_g.rows[j]["bmi"] = Num(160, 7)

(***************************************************************************)
(* C16                                                                     *)
(***************************************************************************)
ErrorStates == {"KeyError", "03b_KeyError"}

\* row i of the wide table has no value, or the value 0, in column c
MissingIn(wide, i, c) == isna(wide.rows[i][c])

MissingOrZero(wide, i, c) == isna(wide.rows[i][c]) \/ wide.rows[i][c] = Zero

HasColumns(df, cs) == \A c \in cs : HasColumn(df, c)

\* df is the table wide after some enrichment steps: the derived quantities
\* with a missing or zero input are null
NullOnMissingOrZero(wide, df) ==
    \A i \in DOMAIN wide.rows :
        /\ (/\ HasColumn(df, "bmi") /\ isna(InputBmi(wide, i))
            /\ HasColumns(wide, {"weight", "height"})
            /\ MissingOrZero(wide, i, "weight") \/ MissingOrZero(wide, i, "height")) =>
              df.rows[i]["bmi"] = NaN
        /\ (/\ HasColumn(df, "bsa")
            /\ MissingOrZero(wide, i, "weight") \/ MissingOrZero(wide, i, "height")) =>
              df.rows[i]["bsa"] = NaN
        /\ (/\ HasColumn(df, "est_crcl")
            /\ \/ MissingOrZero(wide, i, "age") \/ MissingOrZero(wide, i, "weight")
               \/ MissingIn(wide, i, "sex")) =>
              df.rows[i]["est_crcl"] = NaN
        /\ (/\ HasColumn(df, "ibw")
            /\ MissingOrZero(wide, i, "height") \/ MissingIn(wide, i, "sex")) =>
              df.rows[i]["ibw"] = NaN

NullOnMissing(wide, df, guarded) ==
    \A i \in DOMAIN wide.rows :
        /\ (/\ HasColumn(df, "bmi") /\ isna(InputBmi(wide, i))
            /\ HasColumns(wide, {"weight", "height"})
            /\ \/ MissingIn(wide, i, "weight") \/ MissingIn(wide, i, "height")
               \/ guarded /\ (MissingOrZero(wide, i, "weight")
                                \/ MissingOrZero(wide, i, "height"))) =>
              df.rows[i]["bmi"] = NaN
        /\ (/\ HasColumn(df, "bsa")
            /\ MissingOrZero(wide, i, "weight") \/ MissingOrZero(wide, i, "height")) =>
              df.rows[i]["bsa"] = NaN
        /\ (/\ HasColumn(df, "est_crcl")
            /\ \/ MissingIn(wide, i, "age") \/ MissingIn(wide, i, "weight")
               \/ MissingIn(wide, i, "sex")) =>
              df.rows[i]["est_crcl"] = NaN
        /\ (/\ HasColumn(df, "ibw")
            /\ MissingIn(wide, i, "height") \/ (guarded /\ MissingIn(wide, i, "sex"))) =>
              df.rows[i]["ibw"] = NaN

\* what the unguarded formulas give for a zero
NumberOnZero(wide, df, guarded) ==
    \A i \in DOMAIN wide.rows :
        /\ (/\ HasColumn(df, "est_crcl") /\ wide.rows[i]["weight"] = Zero
            /\ IsPositive(wide.rows[i]["age"]) /\ ~MissingIn(wide, i, "sex")) =>
              df.rows[i]["est_crcl"] = Zero
        /\ (HasColumn(df, "ibw") /\ wide.rows[i]["height"] = Zero
              /\ ~MissingIn(wide, i, "sex")) =>
              df.rows[i]["ibw"] \in {Int2Num(-88), Num(-925, 10)}
        /\ (/\ ~guarded /\ pc \in SaveAnalysisBmiDone /\ HasColumn(wide, "height")
            /\ isna(InputBmi(wide, i))
            /\ wide.rows[i]["height"] = Zero /\ IsPositive(wide.rows[i]["weight"])) =>
              df.rows[i]["bmi"] = Num(1, 0)

DerivedColumns == {"bmi", "bsa", "est_crcl", "ibw", "is_smoker", "is_healthy", "is_female",
                   "on_oc", "age_category", "bmi_category"}

Needs(d) ==
    CASE d = "bmi" -> {"height", "weight"}
      [] d = "bsa" -> {"height", "weight"}
      [] d = "est_crcl" -> {"age", "weight", "sex"}
      [] d = "ibw" -> {"height", "sex"}
      [] d = "is_smoker" -> {"smoking"}
      [] d = "is_healthy" -> {"healthy"}
      [] d = "is_female" -> {"sex"}
      [] d = "on_oc" -> {"oral contraceptives"}
      [] d = "age_category" -> {"age"}
      [] OTHER -> {"bmi"}

\* a derived column that lacks an input column is not created
SkippedWhenAbsent(wide, df) ==
    \A d \in DerivedColumns :
        (~HasColumns(wide, Needs(d)) /\ ~HasColumn(wide, d)) => ~HasColumn(df, d)

\* C17 as stated: when an input column that a derived feature needs is absent
\* from the wide table, the feature is skipped for all rows: its derived column
\* is not created and no error is raised.
C17_SchemaMismatchSkipped ==
    /\ SkippedWhenAbsent(df_groups_wide, df_g)
    /\ SkippedWhenAbsent(df_indiv_wide, df_i)
    /\ SkippedWhenAbsent(df_groups_wide, df_g_03b)
    /\ pc \notin ErrorStates

(***************************************************************************)
(* C18                                                                     *)
(***************************************************************************)
\* df is the table wide after the BSA step
BsaGuard(wide, df) ==
    /\ HasColumn(df, "bsa") <=> HasColumn(wide, "height")
    /\ HasColumn(df, "bsa") =>
          \A i \in DOMAIN wide.rows :
              LET w == wide.rows[i]["weight"]
                  h == wide.rows[i]["height"]
                  bsa == df.rows[i]["bsa"]
              IN  /\ bsa # Zero
                  /\ notna(bsa) <=> (IsPositive(w) /\ IsPositive(h))
                  /\ notna(bsa) => bsa = << <<"DuBois", w[1], h[1]>> >>

\* C18: after the enrichment of a table with a height column, bsa is non-null
\* exactly for the rows whose weight and height are both present and strictly
\* positive, and bsa is never 0.
C18_BsaGuard ==
    /\ pc \in GroupsBmiDone \ {"fe_groups_bsa"} => BsaGuard(df_groups_wide, df_g)
    /\ pc = "fe_done" => BsaGuard(df_indiv_wide, df_i)
    /\ pc \in SaveAnalysisBmiDone \ {"03b_bsa"} => BsaGuard(df_groups_wide, df_g_03b)

\* C18 witness: 03 has run to its end on two groups, one of weight 0 and height
\* 175 whose bsa is null and one of 81 kg and 180 cm whose bsa is a number.
C18_Witness ==
    /\ pc = "fe_done"
    /\ HasColumn(df_g, "bsa")
    /\ \E i, j \in DOMAIN df_g.rows :
          /\ df_groups_wide.rows[i]["weight"] = Zero
          /\ df_groups_wide.rows[i]["height"] = Int2Num(175)
          /\ df_g.rows[i]["bsa"] = NaN
          /\ df_groups_wide.rows[j]["weight"] = Int2Num(81)
          /\ df_groups_wide.rows[j]["height"] = Int2Num(180)
          /\ df_g.rows[j]["bsa"] = dubois(Int2Num(81), Int2Num(180))

(***************************************************************************)
(* C19                                                                     *)
(***************************************************************************)
IsPrefix(s, t) == Len(s) <= Len(t) /\ \A k \in DOMAIN s : s[k] = t[k]

\* df has the wide columns first, and derived has a column exactly when the
\* wide table has the columns it is derived from
HasDerived(wide, df, derived) ==
    /\ IsPrefix(wide.columns, df.columns)
    /\ \A d \in derived : HasColumn(df, d) <=> (HasColumn(wide, d) \/ HasColumns(wide, Needs(d)))

\* df has the wide columns and every derived column whose inputs wide has
HasAllDerived(wide, df) ==
    /\ IsPrefix(wide.columns, df.columns)
    /\ \A d \in DerivedColumns : HasColumns(wide, Needs(d)) => HasColumn(df, d)

IndivDerivedColumns == {"bmi", "bsa", "est_crcl", "is_female", "is_smoker", "age_category"}

\* the derived columns of a table, in the order the steps append them
DerivedOf(wide, df) == SubSeq(df.columns, Len(wide.columns) + 1, Len(df.columns))

OnlyRow(df, i) == [columns |-> df.columns, rows |-> <<df.rows[i]>>]

\* the step takes each row of before to the row it gives on that row alone
RowWise(before, after, Step(_)) ==
    /\ DOMAIN after.rows = DOMAIN before.rows
    /\ \A i \in DOMAIN before.rows : after.rows[i] = Step(OnlyRow(before, i)).df.rows[1]

\* C20: every derived cell of an entity is a function of the entity's own wide
\* row: each enrichment step gives an entity the row it gives when the table
\* holds this entity alone, whatever the other rows and the entity's position,
\* so that tables agreeing on an entity's wide row agree on its enriched row.
C20_NoCrossEntityState ==
    [][/\ pc = "fe_groups_bmi" => RowWise(df_g, df_g', fill_bmi)
       /\ pc = "fe_groups_bsa" => RowWise(df_g, df_g', step_bsa)
       /\ pc = "fe_groups_crcl" => RowWise(df_g, df_g', step_crcl)
       /\ pc = "fe_groups_ibw" => RowWise(df_g, df_g', step_ibw)
       /\ pc = "fe_groups_encodings" => RowWise(df_g, df_g', step_encodings)
       /\ pc = "fe_groups_age_category" => RowWise(df_g, df_g', step_age_category)
       /\ pc = "fe_groups_bmi_category" => RowWise(df_g, df_g', step_bmi_category)
       /\ pc = "fe_indiv_bmi" => RowWise(df_i, df_i', fill_bmi)
       /\ pc = "fe_indiv_bsa" => RowWise(df_i, df_i', step_bsa)
       /\ pc = "fe_indiv_crcl" => RowWise(df_i, df_i', step_crcl_indiv)
       /\ pc = "fe_indiv_encodings" => RowWise(df_i, df_i', step_encodings_indiv)
       /\ pc = "fe_indiv_age_category" => RowWise(df_i, df_i', step_age_category)
       /\ pc = "03b_bmi" => RowWise(df_g_03b, df_g_03b', fill_bmi_03b)
       /\ pc = "03b_bsa" => RowWise(df_g_03b, df_g_03b', step_bsa_03b)
       /\ pc = "03b_crcl" => RowWise(df_g_03b, df_g_03b', step_crcl_03b)
       /\ pc = "03b_ibw" => RowWise(df_g_03b, df_g_03b', step_ibw_03b)
       /\ pc = "03b_encodings" => RowWise(df_g_03b, df_g_03b', step_encodings_03b)
       /\ pc = "03b_age_category" => RowWise(df_g_03b, df_g_03b', step_age_category_03b)
       /\ pc = "03b_bmi_category" => RowWise(df_g_03b, df_g_03b', step_bmi_category_03b)
      ]_vars

\* C20 witness: 03 has run to its end on two groups, the second one without bmi
\* and with other values than the first: each has its own derived values.
C20_Witness ==
    /\ pc = "fe_done"
    /\ Len(df_g.rows) = 2
    /\ HasColumns(df_g, {"bmi", "bsa", "est_crcl", "ibw", "is_female"})
    /\ df_groups_wide.rows[2]["bmi"] = NaN
    /\ df_groups_wide.rows[1]["bmi"] = Int2Num(24)
    /\ df_g.rows[1]["bmi"] = Int2Num(24)
    /\ df_g.rows[2]["bmi"] = Num(160, 7)
    /\ df_g.rows[1]["est_crcl"] # df_g.rows[2]["est_crcl"]
    /\ df_g.rows[1]["ibw"] # df_g.rows[2]["ibw"]

(***************************************************************************)
(* C23                                                                     *)
(***************************************************************************)
\* 03 has enriched the groups to the end of its cell 3 (3f, which every
\* complete run passes, has written age_category)
GroupsEnriched == HasColumn(df_g, "age_category")

\* the two tables have the same derived columns with the same cells
SameDerived(a, b) ==
    /\ DOMAIN a.rows = DOMAIN b.rows
    /\ \A d \in DerivedColumns :
          /\ HasColumn(a, d) <=> HasColumn(b, d)
          /\ HasColumn(a, d) /\ HasColumn(b, d) =>
                \A i \in DOMAIN a.rows : a.rows[i][d] = b.rows[i][d]

\* C23: for every groups-wide input table the group enrichment re-applied by
\* 03b_save_analysis.py produces the same derived values (bmi, bsa, est_crcl,
\* ibw, is_smoker, is_healthy, on_oc, is_female, age_category, bmi_category) for
\* every row as the group enrichment of 03_feature_engineering.py, including
\* rows with height = 0, rows with a missing sex and tables without a bmi
\* column: where 03 enriches the groups 03b does too, with the same cells.
C23_RerunEquivalent ==
    /\ pc = "03b_done" => SameDerived(df_g, df_g_03b)
    /\ pc = "03b_KeyError" => ~GroupsEnriched

(***************************************************************************)
(* C26                                                                     *)
(***************************************************************************)
\* the values of pc after the CrCl step of the groups, the individuals, 03b
GroupsCrclDone ==
    {"fe_groups_ibw", "fe_groups_encodings", "fe_groups_age_category",
     "fe_groups_bmi_category", "fe_indiv_bmi", "fe_indiv_bsa", "fe_indiv_crcl",
     "fe_indiv_encodings", "fe_indiv_age_category", "fe_done"}

IndivCrclDone == {"fe_indiv_encodings", "fe_indiv_age_category", "fe_done"}

SaveAnalysisCrclDone ==
    {"03b_ibw", "03b_encodings", "03b_age_category", "03b_bmi_category", "03b_done"}

\* df is the table wide after the CrCl step, wide having a sex column: est_crcl
\* is there, and non-null in exactly the rows with age, weight and sex
CrclPresence(wide, df) ==
    HasColumn(wide, "sex") =>
        /\ HasColumn(df, "est_crcl")
        /\ \A i \in DOMAIN wide.rows :
              notna(df.rows[i]["est_crcl"]) <=>
                 (/\ Present(wide, i, "age") /\ Present(wide, i, "weight")
                  /\ Present(wide, i, "sex"))

\* before the step, and in a table without a sex column, nothing is written
CrclUnwritten(wide, df) ==
    HasColumn(df, "est_crcl") => HasColumn(wide, "sex")

\* C26: with a sex column present, after the CrCl step of 03 (groups and
\* individuals) and of 03b, est_crcl is non-null in exactly the rows whose
\* age, weight and sex are all present; a row with a missing sex has a null
\* est_crcl, and est_crcl is written nowhere else.
C26_CrclPresence ==
    /\ pc \in GroupsCrclDone => CrclPresence(df_groups_wide, df_g)
    /\ pc \in IndivCrclDone => CrclPresence(df_indiv_wide, df_i)
    /\ pc \in SaveAnalysisCrclDone => CrclPresence(df_groups_wide, df_g_03b)
    /\ CrclUnwritten(df_groups_wide, df_g)
    /\ CrclUnwritten(df_indiv_wide, df_i)
    /\ CrclUnwritten(df_groups_wide, df_g_03b)

\* C26 witness: 03b has run its CrCl step on two groups: the one of age 40 and
\* weight 70 without a sex label has a null est_crcl, and the other one, with
\* the sex f, has a number.
C26_Witness ==
    /\ pc = "03b_ibw"
    /\ HasColumn(df_g_03b, "est_crcl")
    /\ Len(df_groups_wide.rows) = 2
    /\ \E i, j \in DOMAIN df_groups_wide.rows :
          /\ df_groups_wide.rows[i]["age"] = Int2Num(40)
          /\ df_groups_wide.rows[i]["weight"] = Int2Num(70)
          /\ df_groups_wide.rows[i]["sex"] = NaN
          /\ df_g_03b.rows[i]["est_crcl"] = NaN
          /\ df_groups_wide.rows[j]["sex"] = <<Str_f>>
          /\ notna(df_g_03b.rows[j]["est_crcl"])

(***************************************************************************)
(* 01_data_ingestion.py: get_all_pages(endpoint, max_pages=None, delay).   *)
(* The server is [last_page, shape, error_at]: it answers the request for  *)
(* page p with an HTTP error status when p = error_at or p is beyond its   *)
(* last page, and otherwise with HTTP 200 and a JSON body holding the      *)
(* records of the page, the total count and "last_page" (no such key when  *)
(* last_page is <<>>).  shape says whether body["data"] is a dict holding  *)
(* "data" and "count" or the bare list of records.  A record is its        *)
(* number in the endpoint's order.  max_pages is a cell: <<>> is None.     *)
(***************************************************************************)
(* C27                                                                     *)
(***************************************************************************)
\* the values of pc after 3g
GroupsBmiCategoryDone ==
    {"fe_indiv_bmi", "fe_indiv_bsa", "fe_indiv_crcl", "fe_indiv_encodings",
     "fe_indiv_age_category", "fe_done"}

\* the bin of a bmi cell: null for a null cell and outside [0, 100)
BmiBin(b) ==
    IF isna(b) THEN NaN
    ELSE IF InBin(b, 0, 185) THEN <<"underweight">>
    ELSE IF InBin(b, 185, 250) THEN <<"normal">>
    ELSE IF InBin(b, 250, 300) THEN <<"overweight">>
    ELSE IF InBin(b, 300, 1000) THEN <<"obese">>
    ELSE NaN

\* df is the table wide after the bmi_category step
BinnedAfterFill(wide, df) ==
    HasColumn(df, "bmi") =>
        /\ HasColumn(df, "bmi_category")
        /\ \A i \in DOMAIN wide.rows :
              /\ df.rows[i]["bmi_category"] = BmiBin(df.rows[i]["bmi"])
              /\ (/\ isna(InputBmi(wide, i))
                  /\ Present(wide, i, "weight") /\ IsPositive(wide.rows[i]["weight"])
                  /\ Present(wide, i, "height") /\ IsPositive(wide.rows[i]["height"])) =>
                    df.rows[i]["bmi_category"] =
                       BmiBin(BmiFormula(wide.rows[i]["weight"], wide.rows[i]["height"]))

\* C27: after the bmi_category step of 03 (groups) and of 03b, the
\* bmi_category of every row is the bin of the row's final bmi cell, null when
\* that cell is null or outside [0, 100); and a row with no direct bmi but a
\* positive weight and height has the bin of the bmi computed from the two.
C27_CategoryAfterFill ==
    /\ pc \in GroupsBmiCategoryDone => BinnedAfterFill(df_groups_wide, df_g)
    /\ pc = "03b_done" => BinnedAfterFill(df_groups_wide, df_g_03b)

\* C27 witness: 03 has binned two groups: the one without a bmi, of 70 kg and
\* 175 cm, has the filled bmi 160/7 and the category normal.
C27_Witness ==
    /\ pc = "fe_indiv_bmi"
    /\ HasColumns(df_groups_wide, {"bmi", "weight", "height"})
    /\ \E i \in DOMAIN df_groups_wide.rows :
          /\ df_groups_wide.rows[i]["bmi"] = NaN
          /\ df_groups_wide.rows[i]["weight"] = Int2Num(70)
          /\ df_groups_wide.rows[i]["height"] = Int2Num(175)
          /\ df_g.rows[i]["bmi"] = Num(160, 7)
          /\ df_g.rows[i]["bmi_category"] = <<"normal">>

(***************************************************************************)
MaxPages == 3

RecsPerPage == 2

\* the records the endpoint serves on page p
PageRecords(p) == [i \in 1..RecsPerPage |-> (p - 1) * RecsPerPage + i]

\* the number of pages the server has
PagesOf(srv) == IF srv.last_page = <<>> THEN 1 ELSE srv.last_page[1]

\* requests.get(url): the status and the parsed JSON body of the answer
Response(srv, p) ==
    IF p = srv.error_at \/ p > PagesOf(srv)
    THEN [status |-> IF p = srv.error_at THEN 500 ELSE 404,
          shape |-> "dict", records |-> <<>>, count |-> <<>>, last_page |-> <<>>]
    ELSE [status |-> 200, shape |-> srv.shape, records |-> PageRecords(p),
          count |-> <<PagesOf(srv) * RecsPerPage>>, last_page |-> srv.last_page]

\* the error status ignored
raise_for_status_ignored(resp) == FALSE

\* resp.raise_for_status(): raises HTTPError for a 4xx or 5xx status
raise_for_status(resp) == resp.status >= 400

\* lines 37-43: records and total of a body
records_of(resp) == resp.records

total_of(resp) ==
    IF resp.shape = "dict"
    THEN (IF resp.count = <<>> THEN 0 ELSE resp.count[1])
    ELSE Len(resp.records)

\* raw.get("last_page", 1)
last_page_of(resp) == IF resp.last_page = <<>> THEN 1 ELSE resp.last_page[1]

\* the loop left one page late
last_page_passed(p, last_page) == p > last_page

\* line 52: if page >= last_page: break
last_page_reached(p, last_page) == p >= last_page

\* line 54: if max_pages and page >= max_pages: break (None and 0 are falsy)
max_pages_reached(p, max_pages) ==
    max_pages # <<>> /\ max_pages[1] # 0 /\ p >= max_pages[1]

Servers ==
    [last_page : {<<>>} \cup {<<n>> : n \in 1..MaxPages},
     shape : {"dict", "list"},
     error_at : 0..MaxPages]

PagesCalls ==
    {[fn |-> "get_all_pages", max_pages |-> k] :
        k \in {<<>>} \cup {<<n>> : n \in 0..(MaxPages + 1)}}

InitPages ==
    /\ pc = "get_all_pages"
    /\ server \in Servers
    /\ call \in PagesCalls
    /\ result = <<>>
    /\ page = 0 /\ all_records = <<>> /\ requested = <<>>
    /\ df_groups = <<>> /\ df_indiv = <<>>
    /\ df_groups_wide = NoTable /\ df_indiv_wide = NoTable
    /\ df_g = NoTable /\ df_i = NoTable /\ df_g_03b = NoTable
    /\ JoinIdle

\* lines 28-29: all_records = [], page = 1
EnterGetAllPages ==
    /\ pc = "get_all_pages"
    /\ all_records' = <<>>
    /\ page' = 1
    /\ pc' = "while"
    /\ UNCHANGED <<longVars, wideVars, feVars, callVars, joinVars, server, requested>>

\* lines 31-58: one pass of the loop.  The page is requested; an error status
\* raises out of the function (and of the script); otherwise the records are
\* appended and the loop ends or goes to the next page.
FetchPage ==
    /\ pc = "while"
    /\ requested' = Append(requested, page)
    /\ LET resp == Response(server, page)
       IN  IF raise_for_status(resp)
           THEN /\ pc' = "HTTPError"
                /\ UNCHANGED <<all_records, page>>
           ELSE /\ all_records' = all_records \o records_of(resp)
                /\ IF \/ last_page_reached(page, last_page_of(resp))
                      \/ max_pages_reached(page, call.max_pages)
                   THEN pc' = "return" /\ page' = page
                   ELSE pc' = "while" /\ page' = page + 1
    /\ UNCHANGED <<longVars, wideVars, feVars, callVars, joinVars, server>>

\* line 61: return all_records, total (total is the one of the last pass)
ReturnPages ==
    /\ pc = "return"
    /\ result' = <<all_records, total_of(Response(server, page))>>
    /\ pc' = "returned"
    /\ UNCHANGED <<longVars, wideVars, feVars, joinVars, pageVars, call>>

NextPages == EnterGetAllPages \/ FetchPage \/ ReturnPages

\* the function is sequential code: a step that can be taken is taken
SpecPages == InitPages /\ [][NextPages]_vars /\ WF_vars(NextPages)

(***************************************************************************)
(* C24                                                                     *)
(***************************************************************************)
\* the pages 1..n in ascending order
PagesUpTo(n) == [i \in 1..n |-> i]

\* the records of the pages 1..n, page after page
RecordsUpTo(n) == Flatten([p \in 1..n |-> PageRecords(p)])

\* the server reports a last_page N >= 1
ReportsLastPage == server # <<>> /\ server.last_page # <<>>

\* max_pages = k > 0 was given
Capped == call.max_pages # <<>> /\ call.max_pages[1] > 0

\* min(N, k), and N when no max_pages is given
PagesToRequest ==
    IF Capped /\ call.max_pages[1] < server.last_page[1] THEN call.max_pages[1]
    ELSE server.last_page[1]

\* every request the function makes is answered with HTTP 200
NoHttpError == server.error_at = 0 \/ server.error_at > PagesToRequest

CollectsPages ==
    ReportsLastPage =>
        /\ requested = PagesUpTo(Len(requested))
        /\ \A i \in DOMAIN requested :
              /\ requested[i] <= server.last_page[1]
              /\ Capped => requested[i] <= call.max_pages[1]
        /\ NoHttpError => pc # "HTTPError"
        /\ pc = "returned" =>
              /\ requested = PagesUpTo(PagesToRequest)
              /\ result[1] = RecordsUpTo(PagesToRequest)

\* C24: against a server that reports a fixed last_page = N >= 1 (and answers
\* every request), get_all_pages terminates after requesting pages 1..N in
\* ascending order, each exactly once, and returns the concatenation of their
\* records in page order; when max_pages = k > 0 is given it requests exactly
\* the pages 1..min(N, k) and never a page above k.
C24_CollectsAllPages ==
    /\ []CollectsPages
    /\ (ReportsLastPage /\ NoHttpError) ~> (pc = "returned")

\* C24 witness: last_page = 3 and max_pages = 2: pages 1 and 2 were requested
\* and the records of these two pages returned with the total of all three.
C24_Witness ==
    /\ pc = "returned"
    /\ server = [last_page |-> <<3>>, shape |-> "dict", error_at |-> 0]
    /\ call.max_pages = <<2>>
    /\ requested = <<1, 2>>
    /\ result = <<PageRecords(1) \o PageRecords(2), 3 * RecsPerPage>>

(***************************************************************************)
(* C25                                                                     *)
(***************************************************************************)
\* C25: if the request for any page returns an HTTP error status, the function
\* raises at that page, requests no later page, and returns no records at all
\* to the caller (the records of the pages already fetched are not delivered
\* as a partial result).
C25_AbortsOnHttpFailure ==
    server # <<>> =>
        /\ \A i \in DOMAIN requested :
              requested[i] = server.error_at =>
                  /\ pc = "HTTPError"
                  /\ i = Len(requested)
                  /\ result = <<>>
        /\ pc = "HTTPError" =>
              /\ requested = PagesUpTo(server.error_at)
              /\ result = <<>>
        /\ result # <<>> => \A i \in DOMAIN requested : requested[i] # server.error_at

\* C25 witness: the server fails on page 2 of 3: pages 1 and 2 were requested,
\* the two records of page 1 had been collected, and nothing is returned.
C25_Witness ==
    /\ pc = "HTTPError"
    /\ server.last_page = <<3>> /\ server.error_at = 2
    /\ requested = <<1, 2>>
    /\ all_records = PageRecords(1)
    /\ result = <<>>

(***************************************************************************)
(* 03_feature_engineering.py cells 5 and 6 and the same lines of           *)
(* 03b_save_analysis.py: the dosing records of the caffeine studies are    *)
(* summarised per study and left-joined to the enriched caffeine groups.   *)
(***************************************************************************)
\* what x.mode().iloc[0] raises on an empty mode: neither a cell nor NaN
IndexError == <<"raise", "IndexError">>

\* df_interv[df_interv['study_sid'].isin(caff_sids)
\*           & (df_interv['measurement_type'] == 'dosing')]
df_caff_interv(interv, sids) ==
    LET Keep(r) == /\ notna(r.study_sid) /\ r.study_sid[1] \in sids
                   /\ r.measurement_type = <<"dosing">>
    IN  SelectSeq(interv, Keep)

\* Series.nunique(): the number of distinct non-null values
nunique(x) == Cardinality({x[i] : i \in DOMAIN x} \ {NaN})

\* Series.mode() (dropna=True): the most frequent non-null values, sorted
mode(x) ==
    LET vals == {x[i][1] : i \in {j \in DOMAIN x : notna(x[j])}}
        count(v) == Cardinality({i \in DOMAIN x : x[i] = <<v>>})
    IN  SortStrings({v \in vals : \A o \in vals : count(o) <= count(v)})

\* lambda x: x.mode().iloc[0] if len(x) > 0 else None
mode_iloc0(x) ==
    IF Len(x) > 0
    THEN (IF mode(x) = <<>> THEN IndexError ELSE <<mode(x)[1]>>)
    ELSE NaN

summary_columns == <<"study_sid", "n_interventions", "primary_substance", "primary_route",
                     "dose_value", "dose_unit", "application_type">>

\* groupby('study_sid'): the group keys, sorted; a null key is in no group
groupby_study_sid(rows) ==
    SortStrings({r.study_sid[1] : r \in {x \in Range(rows) : notna(x.study_sid)}})

\* df_caff_interv.groupby('study_sid').agg(...).reset_index(): ok is FALSE when
\* an aggregation raised
agg_interv_summary(rows) ==
    LET sids == groupby_study_sid(rows)
        series(s, c) ==
            LET g == SelectSeq(rows, LAMBDA r : r.study_sid = <<s>>)
            IN  [i \in DOMAIN g |-> g[i][c]]
        row(s) ==
            [study_sid |-> <<s>>,
             n_interventions |-> <<nunique(series(s, "intervention_pk"))>>,
             primary_substance |-> mode_iloc0(series(s, "substance")),
             primary_route |-> mode_iloc0(series(s, "route")),
             dose_value |-> first(series(s, "value")),
             dose_unit |-> first(series(s, "unit")),
             application_type |-> first(series(s, "application"))]
        rs == [i \in DOMAIN sids |-> row(sids[i])]
    IN  [ok |-> \A i \in DOMAIN rs :
                   rs[i].primary_substance # IndexError /\ rs[i].primary_route # IndexError,
         df |-> [columns |-> summary_columns, rows |-> rs]]

\* df_g[df_g['study_sid'].isin(caff_sids)]
df_caff_groups(df, sids) ==
    LET Keep(r) == notna(r.study_sid) /\ r.study_sid[1] \in sids
    IN  [columns |-> df.columns, rows |-> SelectSeq(df.rows, Keep)]

\* how='inner': a left row without match is dropped
merge_inner(left, right, on) ==
    LET rcols == NonKeyColumns(right, on)
        join(l, r) == [c \in DOMAIN l \cup Range(rcols) |-> IF c \in DOMAIN l THEN l[c] ELSE r[c]]
        rowsOf(l) ==
            LET ms == SelectSeq(right.rows, LAMBDA r : KeyOf(r, on) = KeyOf(l, on))
            IN  [j \in DOMAIN ms |-> join(l, ms[j])]
    IN  [columns |-> left.columns \o rcols,
         rows |-> Flatten([i \in DOMAIN left.rows |-> rowsOf(left.rows[i])])]

\* pd.merge(left, right, on=on, how='left'): in the order of the left rows, one
\* row per matching right row, and one row with NaN in the right columns for a
\* left row without match
merge_left(left, right, on) ==
    LET rcols == NonKeyColumns(right, on)
        nanrow == [c \in Range(rcols) |-> NaN]
        join(l, r) == [c \in DOMAIN l \cup Range(rcols) |-> IF c \in DOMAIN l THEN l[c] ELSE r[c]]
        rowsOf(l) ==
            LET ms == SelectSeq(right.rows, LAMBDA r : KeyOf(r, on) = KeyOf(l, on))
            IN  IF ms = <<>> THEN <<join(l, nanrow)>>
                ELSE [j \in DOMAIN ms |-> join(l, ms[j])]
    IN  [columns |-> left.columns \o rcols,
         rows |-> Flatten([i \in DOMAIN left.rows |-> rowsOf(left.rows[i])])]

(***************************************************************************)
(* Inputs of the join: rows of pkdb_interventions.csv, the sids of the     *)
(* caffeine studies, and the enriched groups.                              *)
(***************************************************************************)
MaxInterv == 3

\* a row of pkdb_interventions.csv; a dose has the unit mg
InterventionRecord(sid, mt, pk, substance, route, value) ==
    [study_sid |-> sid, measurement_type |-> <<mt>>, intervention_pk |-> <<pk>>,
     substance |-> substance, route |-> route, value |-> value,
     unit |-> IF notna(value) THEN <<"mg">> ELSE NaN,
     application |-> <<"single dose">>]

\* S1 and S2 are caffeine studies, S3 is not
InterventionRecords ==
    {InterventionRecord(<<"S1">>, "dosing", 1, <<"caffeine">>, <<"oral">>, Int2Num(100)),
     InterventionRecord(<<"S1">>, "dosing", 2, <<"caffeine">>, <<"iv">>, Int2Num(200)),
     InterventionRecord(<<"S1">>, "dosing", 1, <<"codeine">>, <<"oral">>, NaN),
     InterventionRecord(<<"S1">>, "dosing", 3, NaN, NaN, Int2Num(50)),
     InterventionRecord(<<"S2">>, "dosing", 4, NaN, <<"oral">>, Int2Num(150)),
     InterventionRecord(<<"S1">>, "qualitative dosing", 5, <<"codeine">>, <<"iv">>, NaN),
     InterventionRecord(<<"S3">>, "dosing", 6, <<"codeine">>, <<"oral">>, Int2Num(30)),
     InterventionRecord(NaN, "dosing", 7, <<"caffeine">>, <<"oral">>, Int2Num(100))}

CaffeineSids == {{"S1", "S2"}, {"S1"}}

EnrichedRow(sid, pk, bmi, category) ==
    [study_sid |-> <<sid>>, group_pk |-> <<pk>>, bmi |-> bmi, bmi_category |-> category]

\* the enriched groups: two groups of S1, one of S2, one of S3; and the groups
\* of S2 and S1 alone, in that order
EnrichedGroups ==
    {[columns |-> <<"study_sid", "group_pk", "bmi", "bmi_category">>,
      rows |-> <<EnrichedRow("S1", 1, Int2Num(22), <<"normal">>),
                 EnrichedRow("S1", 2, NaN, NaN),
                 EnrichedRow("S2", 3, Int2Num(24), <<"normal">>),
                 EnrichedRow("S3", 4, Int2Num(30), <<"obese">>)>>],
     [columns |-> <<"study_sid", "group_pk", "bmi", "bmi_category">>,
      rows |-> <<EnrichedRow("S2", 3, Int2Num(24), <<"normal">>),
                 EnrichedRow("S1", 1, Int2Num(22), <<"normal">>)>>]}

(***************************************************************************)
(* Cells 5 and 6 of 03 and the same lines of 03b as a state machine.  An   *)
(* aggregation that raises ends the script (pc = "IndexError",             *)
(* "03b_IndexError"); 03b is a script of its own and runs on the same      *)
(* files whatever became of 03.                                            *)
(***************************************************************************)
InitJoin ==
    /\ pc = "fe_interventions"
    /\ df_interv \in SeqsUpTo(InterventionRecords, MaxInterv)
    /\ caff_sids \in CaffeineSids
    /\ df_g \in EnrichedGroups
    /\ df_g_03b = df_g
    /\ interv_summary = NoTable /\ df_analysis = NoTable
    /\ df_groups = <<>> /\ df_indiv = <<>>
    /\ df_groups_wide = NoTable /\ df_indiv_wide = NoTable
    /\ df_i = NoTable
    /\ call = <<>> /\ result = <<>>
    /\ PagesIdle

\* 03, cell 5
FeInterventionSummary ==
    /\ pc = "fe_interventions"
    /\ LET r == agg_interv_summary(df_caff_interv(df_interv, caff_sids))
       IN  /\ interv_summary' = IF r.ok THEN r.df ELSE interv_summary
           /\ pc' = IF r.ok THEN "fe_join" ELSE "IndexError"
    /\ UNCHANGED <<longVars, pageVars, wideVars, feVars, callVars,
                   df_interv, caff_sids, df_analysis>>

\* 03, cell 6
FeJoin ==
    /\ pc = "fe_join"
    /\ df_analysis' = merge_left(df_caff_groups(df_g, caff_sids), interv_summary,
                                 <<"study_sid">>)
    /\ pc' = "fe_joined"
    /\ UNCHANGED <<longVars, pageVars, wideVars, feVars, callVars,
                   df_interv, caff_sids, interv_summary>>

\* 03b is started after 03 has ended, normally or not
StartSaveAnalysis ==
    /\ pc \in {"fe_joined", "IndexError"}
    /\ pc' = "03b_interventions"
    /\ UNCHANGED <<longVars, pageVars, wideVars, feVars, callVars, joinVars>>

\* 03b: Caffeine interventions
SaveAnalysisInterventionSummary ==
    /\ pc = "03b_interventions"
    /\ LET r == agg_interv_summary(df_caff_interv(df_interv, caff_sids))
       IN  /\ interv_summary' = IF r.ok THEN r.df ELSE interv_summary
           /\ pc' = IF r.ok THEN "03b_join" ELSE "03b_IndexError"
    /\ UNCHANGED <<longVars, pageVars, wideVars, feVars, callVars,
                   df_interv, caff_sids, df_analysis>>

\* 03b: Join
SaveAnalysisJoin ==
    /\ pc = "03b_join"
    /\ df_analysis' = merge_left(df_caff_groups(df_g_03b, caff_sids), interv_summary,
                                 <<"study_sid">>)
    /\ pc' = "03b_joined"
    /\ UNCHANGED <<longVars, pageVars, wideVars, feVars, callVars,
                   df_interv, caff_sids, interv_summary>>

NextJoin ==
    \/ FeInterventionSummary
    \/ FeJoin
    \/ StartSaveAnalysis
    \/ SaveAnalysisInterventionSummary
    \/ SaveAnalysisJoin

SpecJoin == InitJoin /\ [][NextJoin]_vars

(***************************************************************************)
(* C28                                                                     *)
(***************************************************************************)
InterventionColumns == {"n_interventions", "primary_substance", "primary_route",
                        "dose_value", "dose_unit", "application_type"}

\* the study of this study_sid cell has a dosing record in pkdb_interventions.csv
HasDosing(sid) ==
    \E r \in Range(df_interv) : r.study_sid = sid /\ r.measurement_type = <<"dosing">>

IsCaffeineRow(r) == notna(r.study_sid) /\ r.study_sid[1] \in caff_sids

\* analysis is the join of the enriched table groups
OneRowPerCaffeineGroup(groups, analysis) ==
    LET caff == SelectSeq(groups.rows, IsCaffeineRow)
    IN  /\ Len(analysis.rows) = Len(caff)
        /\ \A i \in DOMAIN caff :
              /\ \A c \in Range(groups.columns) : analysis.rows[i][c] = caff[i][c]
              /\ ~HasDosing(caff[i].study_sid) =>
                    \A c \in InterventionColumns : analysis.rows[i][c] = NaN
              /\ HasDosing(caff[i].study_sid) =>
                    notna(analysis.rows[i]["n_interventions"])
        /\ \A a, b \in DOMAIN interv_summary.rows :
              interv_summary.rows[a].study_sid = interv_summary.rows[b].study_sid => a = b

\* C28: the analysis dataset of 03 and of 03b is, in order, one row for each
\* enriched group row whose study_sid is a caffeine study and nothing else,
\* each with the group's own cells; the intervention summary has at most one
\* row per study_sid; the row of a group whose study has no dosing record is
\* null in every intervention column, and the row of a group whose study has
\* one carries the study's summary.
C28_JoinPreservesGroupRows ==
    /\ pc = "fe_joined" => OneRowPerCaffeineGroup(df_g, df_analysis)
    /\ pc = "03b_joined" => OneRowPerCaffeineGroup(df_g_03b, df_analysis)

\* C28 witness: two groups of S1, one of S2 and one of S3, S1 and S2 caffeine
\* studies, two dosing records of S1 and none of S2: the analysis dataset of 03
\* is the three caffeine rows, S1's with the substance caffeine and S2's with
\* null intervention columns.
C28_Witness ==
    /\ pc = "fe_joined"
    /\ Len(df_g.rows) = 4
    /\ caff_sids = {"S1", "S2"}
    /\ Len(df_interv) = 2
    /\ \A i \in DOMAIN df_interv :
          df_interv[i].study_sid = <<"S1">> /\ df_interv[i].substance = <<"caffeine">>
                                           /\ df_interv[i].measurement_type = <<"dosing">>
    /\ Len(df_analysis.rows) = 3
    /\ df_analysis.rows[1]["group_pk"] = <<1>>
    /\ df_analysis.rows[1]["primary_substance"] = <<"caffeine">>
    /\ df_analysis.rows[2]["group_pk"] = <<2>>
    /\ df_analysis.rows[2]["primary_substance"] = <<"caffeine">>
    /\ df_analysis.rows[3]["study_sid"] = <<"S2">>
    /\ df_analysis.rows[3]["n_interventions"] = NaN
    /\ df_analysis.rows[3]["primary_substance"] = NaN

(***************************************************************************)
(* C30                                                                     *)
(***************************************************************************)
SummaryErrorStates == {"IndexError", "03b_IndexError"}

SummaryBuilt == {"fe_join", "fe_joined", "03b_join", "03b_joined"}

\* the dosing records of the study sid
DosingOf(sid) ==
    SelectSeq(df_interv, LAMBDA r : r.study_sid = <<sid>> /\ r.measurement_type = <<"dosing">>)

\* the non-null values of column c that no other value outnumbers in rows
MostFrequent(rows, c) ==
    LET vals == {rows[i][c] : i \in DOMAIN rows} \ {NaN}
        n(v) == Cardinality({i \in DOMAIN rows : rows[i][c] = v})
    IN  {v \in vals : \A o \in vals : n(o) <= n(v)}

PrimaryOf(cell, rows, c) ==
    IF MostFrequent(rows, c) = {} THEN cell = NaN ELSE cell \in MostFrequent(rows, c)

\* C30 (as stated): building the summary never fails, and for every caffeine
\* study with at least one dosing record the summary has exactly one row, whose
\* primary_substance and primary_route are a most frequent non-null substance
\* and route of the study's dosing records, null when no record has one.
C30_SummaryNeverFails ==
    /\ pc \notin SummaryErrorStates
    /\ pc \in SummaryBuilt =>
          \A s \in caff_sids :
              DosingOf(s) # <<>> =>
                 /\ Cardinality({i \in DOMAIN interv_summary.rows :
                                    interv_summary.rows[i].study_sid = <<s>>}) = 1
                 /\ \A i \in DOMAIN interv_summary.rows :
                       interv_summary.rows[i].study_sid = <<s>> =>
                          /\ PrimaryOf(interv_summary.rows[i].primary_substance,
                                       DosingOf(s), "substance")
                          /\ PrimaryOf(interv_summary.rows[i].primary_route,
                                       DosingOf(s), "route")

====
